---- MODULE Spec2Model ----
(***************************************************************************)
(* The cloud-sync core of EnglishForge: smartMergeLibraries (whole-library *)
(* last-write-wins with tombstones), pullAndMerge and pushAll of           *)
(* src/utils/cloudSync.ts, over a local store and one remote document.     *)
(***************************************************************************)
EXTENDS Integers, Sequences, FiniteSets, TLC

(***************************************************************************)
(* Bounds of the model.                                                    *)
(***************************************************************************)
\* timestamps (createdAt, updatedAt, progress.timestamp) range over 1..MaxTime
MaxTime == 2
\* operations (pullAndMerge, pushAll) run in one behaviour of the sync protocol
MaxOps == 2

\* calls of handleLibrariesChange in one behaviour of the App
MaxChanges == 2

\* library ids
Ids == {"a", "b"}

\* the delay of the push timer (App.tsx: setTimeout(..., 1200)), and the step
\* in which the model lets time pass
DebounceMs == 1200

TickMs == DebounceMs \div 2

(***************************************************************************)
(* Data model (types.ts).                                                  *)
(***************************************************************************)
\* updatedAt is optional: 0 stands for an absent (undefined) updatedAt; both
\* undefined and 0 are falsy for the || of processLib.
UpdatedAts == 0..MaxTime

\* items of a library: the merge engine carries them along unchanged
ItemLists == {<<>>, <<"w1">>}

VocabularyLibrary ==
    [id : Ids, createdAt : 1..MaxTime, updatedAt : UpdatedAts, items : ItemLists]

\* the copies of an id told apart by their timestamps alone
PlainLibrary == {l \in VocabularyLibrary : l.items = <<>>}

Range(s) == {s[i] : i \in DOMAIN s}

IdsOf(libs) == {libs[i].id : i \in DOMAIN libs}

UniqueIds(libs) == \A i, j \in DOMAIN libs : libs[i].id = libs[j].id => i = j

\* library lists as the app keeps them: one library per id
LibLists(libs, n) ==
    UNION {{s \in [1..k -> libs] : UniqueIds(s)} : k \in 0..n}

\* tombstone lists (string[]) without repetition, of length at most n
IdLists(n) ==
    UNION {{s \in [1..k -> Ids] : \A i, j \in 1..k : s[i] = s[j] => i = j} : k \in 0..n}

(***************************************************************************)
(* smartMergeLibraries (cloudSync.ts:17-53).                               *)
(***************************************************************************)
\* a JavaScript Set of ids, kept as the list of its elements in insertion order
SetAdd(set, x) == IF x \in Range(set) THEN set ELSE Append(set, x)

RECURSIVE SetFrom(_, _)
SetFrom(set, xs) ==
    IF xs = <<>> THEN set ELSE SetFrom(SetAdd(set, Head(xs)), Tail(xs))

\* variant: the remote tombstones are left out of the set
allDeletedIdsLocalOnly(localDel, remoteDel) == SetFrom(<<>>, localDel)

\* new Set([...localDeletedIds, ...remoteDeletedIds])
allDeletedIds(localDel, remoteDel) == SetFrom(<<>>, localDel \o remoteDel)

\* the Map id -> library, kept as the list of its values in insertion order
MapHas(map, id) == \E i \in DOMAIN map : map[i].id = id

MapGet(map, id) == map[CHOOSE i \in DOMAIN map : map[i].id = id]

\* variant: an array push in place of Map.set
MapSetAppend(map, lib) == Append(map, lib)

\* variant: a replaced entry moves to the end of the map
MapSetMoveToEnd(map, lib) ==
    Append(SelectSeq(map, LAMBDA entry : entry.id # lib.id), lib)

MapSet(map, lib) ==
    IF MapHas(map, lib.id)
    THEN [i \in DOMAIN map |-> IF map[i].id = lib.id THEN lib ELSE map[i]]
    ELSE Append(map, lib)

\* variant: the larger of the two timestamps
LibTimeMax(lib) == IF lib.updatedAt > lib.createdAt THEN lib.updatedAt ELSE lib.createdAt

\* lib.updatedAt || lib.createdAt || 0
LibTime(lib) ==
    IF lib.updatedAt # 0 THEN lib.updatedAt
    ELSE IF lib.createdAt # 0 THEN lib.createdAt
    ELSE 0

\* variant: no tombstone check
processLibNoTombstone(mergedMap, deleted, lib) ==
    IF ~MapHas(mergedMap, lib.id) THEN MapSet(mergedMap, lib)
    ELSE IF LibTime(lib) > LibTime(MapGet(mergedMap, lib.id))
         THEN MapSet(mergedMap, lib)
         ELSE mergedMap

\* variant: the first copy seen is never replaced
processLibKeepExisting(mergedMap, deleted, lib) ==
    IF lib.id \in Range(deleted) THEN mergedMap
    ELSE IF ~MapHas(mergedMap, lib.id) THEN MapSet(mergedMap, lib)
    ELSE mergedMap

\* variant: >= in place of >, so that a later copy overwrites on a tie
processLibOverwriteOnTie(mergedMap, deleted, lib) ==
    IF lib.id \in Range(deleted) THEN mergedMap
    ELSE IF ~MapHas(mergedMap, lib.id) THEN MapSet(mergedMap, lib)
    ELSE IF LibTime(lib) >= LibTime(MapGet(mergedMap, lib.id))
         THEN MapSet(mergedMap, lib)
         ELSE mergedMap

\* variant: the items of the copy that loses are added to the copy that wins
processLibUnionItems(mergedMap, deleted, lib) ==
    IF lib.id \in Range(deleted) THEN mergedMap
    ELSE IF ~MapHas(mergedMap, lib.id) THEN MapSet(mergedMap, lib)
    ELSE LET existing == MapGet(mergedMap, lib.id)
             extra(from, to) ==
                 SelectSeq(from.items, LAMBDA item : item \notin Range(to.items))
         IN IF LibTime(lib) > LibTime(existing)
            THEN MapSet(mergedMap, [lib EXCEPT !.items = @ \o extra(existing, lib)])
            ELSE MapSet(mergedMap, [existing EXCEPT !.items = @ \o extra(lib, existing)])

processLib(mergedMap, deleted, lib) ==
    IF lib.id \in Range(deleted) THEN mergedMap
    ELSE IF ~MapHas(mergedMap, lib.id) THEN MapSet(mergedMap, lib)
    ELSE IF LibTime(lib) > LibTime(MapGet(mergedMap, lib.id))
         THEN MapSet(mergedMap, lib)
         ELSE mergedMap

RECURSIVE ForEachProcessLib(_, _, _)
ForEachProcessLib(mergedMap, deleted, libs) ==
    IF libs = <<>> THEN mergedMap
    ELSE ForEachProcessLib(processLib(mergedMap, deleted, Head(libs)), deleted, Tail(libs))

smartMergeLibraries(localL, remoteL, localDel, remoteDel) ==
    LET deleted == allDeletedIds(localDel, remoteDel)
        afterLocal == ForEachProcessLib(<<>>, deleted, localL)
        afterRemote == ForEachProcessLib(afterLocal, deleted, remoteL)
    IN [merged |-> afterRemote, finalDeletedIds |-> deleted]

(***************************************************************************)
(* Practice progress and the remote document (cloudSync.ts:7-12).          *)
(***************************************************************************)
\* a null / absent practiceProgress
Null == [null |-> TRUE]

Positions == {"p", "q"}

PracticeProgress == [timestamp : 1..MaxTime, position : Positions]

\* no document at users/{uid}/meta/profile
NoDoc == [exists |-> FALSE]

\* notArrays names the fields of the document that hold something else than an
\* array (a document written by another program); such a field's value is not
\* modelled and the field is kept as <<>>
CloudProfile(libs, del, progress, at) ==
    [exists |-> TRUE, libraries |-> libs, deletedLibraryIds |-> del,
     practiceProgress |-> progress, updatedAt |-> at, notArrays |-> {}]

Malformed(doc, fields) == [doc EXCEPT !.notArrays = fields]

\* variant: one field that is not an array empties the other field as well
ArrayOrEmptyAny(doc, field, value) == IF doc.notArrays # {} THEN <<>> ELSE value

\* Array.isArray(data.field) ? data.field : []
ArrayOrEmpty(doc, field, value) == IF field \in doc.notArrays THEN <<>> ELSE value

\* remoteProgress.timestamp || 0
ProgressTime(p) == IF p.timestamp # 0 THEN p.timestamp ELSE 0

\* variant: > in place of >=, so that the local progress is kept on a tie
chooseProgressLocalOnTie(remoteProgress, localProgress) ==
    IF remoteProgress # Null /\ localProgress # Null
    THEN IF ProgressTime(remoteProgress) > ProgressTime(localProgress)
         THEN remoteProgress
         ELSE localProgress
    ELSE IF remoteProgress # Null THEN remoteProgress
    ELSE IF localProgress # Null THEN localProgress
    ELSE Null

\* the chooseProgress closure of pullAndMerge
chooseProgress(remoteProgress, localProgress) ==
    IF remoteProgress # Null /\ localProgress # Null
    THEN IF ProgressTime(remoteProgress) >= ProgressTime(localProgress)
         THEN remoteProgress
         ELSE localProgress
    ELSE IF remoteProgress # Null THEN remoteProgress
    ELSE IF localProgress # Null THEN localProgress
    ELSE Null

\* variant: only permission-denied is told apart
ClassifyPermissionOnly(code) ==
    IF code = "permission-denied" THEN "permission-denied" ELSE "unknown"

\* the catch blocks of pullAndMerge and pushAll: the kind of the error re-raised
Classify(code) ==
    IF code = "permission-denied" THEN "permission-denied"
    ELSE IF code = "unavailable" THEN "unavailable"
    ELSE "unknown"

\* error codes a rejected getDoc / setDoc carries
ErrorCodes == {"permission-denied", "unavailable", "internal"}

\* error.code of an error that has none (a throw of the local store)
NoCode == "none"

\* how an operation ends: the promise rejects with the classified error of the
\* catch block, or resolves
Rejected(op, code) == [op |-> op, outcome |-> Classify(code), code |-> code]

Resolved(op) == [op |-> op, outcome |-> "ok", code |-> NoCode]

(***************************************************************************)
(* The local store (utils/storage).                                        *)
(***************************************************************************)
\* addDeletedLibraryId(id) on the stored tombstone list
addDeletedLibraryId(stored, id) == IF id \in Range(stored) THEN stored ELSE Append(stored, id)

\* variant: the stored list is overwritten with the ids that were missing
OverwriteDeletedIds(stored, localDel, final, limit) ==
    SelectSeq(final, LAMBDA id : id \notin Range(localDel))

\* variant: the tombstones are not stored before the remote write is issued
DeferDeletedIds(stored, localDel, final, limit) == stored

\* finalDeletedIds.forEach(id => { if (!localDeletedIds.includes(id)) addDeletedLibraryId(id) })
\* stopped after `limit` calls of addDeletedLibraryId (the next one throws)
RECURSIVE AddMissingDeletedIds(_, _, _, _)
AddMissingDeletedIds(stored, localDel, final, limit) ==
    IF final = <<>> \/ limit = 0 THEN stored
    ELSE IF Head(final) \in Range(localDel)
         THEN AddMissingDeletedIds(stored, localDel, Tail(final), limit)
         ELSE AddMissingDeletedIds(addDeletedLibraryId(stored, Head(final)), localDel,
                                   Tail(final), limit - 1)

\* variant: the payload of the version without tombstones
MergePayloadNoTombstones(m, chosen, at) == CloudProfile(m.merged, <<>>, chosen, at)

\* variant: the resolved progress is left out of the payload
MergePayloadNoProgress(m, chosen, at) ==
    CloudProfile(m.merged, m.finalDeletedIds, Null, at)

\* the payload of the merge path (lines 107-112)
MergePayload(m, chosen, at) == CloudProfile(m.merged, m.finalDeletedIds, chosen, at)

\* how many ids of final the loop hands to addDeletedLibraryId
MissingCount(localDel, final) ==
    Cardinality({i \in DOMAIN final : final[i] \notin Range(localDel)})

(***************************************************************************)
(* State.                                                                  *)
(***************************************************************************)
VARIABLES
    \* the merge engine applied to drawn inputs
    localLibs, remoteLibs, localDeletedIds, remoteDeletedIds,
    merged, finalDeletedIds,        \* result of merge(L, R)
    remerged, refinalDeletedIds,    \* result of merge((M, T), R)
    swapped, swappedDeletedIds,     \* result of merge(R, L)
    phase,
    \* the local store
    storeLibraries, storeDeletedIds, storeProgress,
    \* the remote document of the user
    remoteDoc,
    \* the sync operation in flight: where it is suspended, the document it is
    \* about to write, and the value the next Date.now() returns
    pc, payload, now,
    \* bookkeeping: the operations finished so far, the state before the current
    \* or last operation, what the last operation computed and how it ended
    ops, pre, run, last,
    \* the state the last successful pullAndMerge left behind
    synced,
    \* the App: the signed-in user, the libraries state, the pending timers
    \* (setTimeout) and pushTimerRef.current, the pushAll calls of the timer
    \* that are suspended in setDoc, and where the login effect stands
    user, libraries, timers, pushTimerRef, pushing, effect,
    \* bookkeeping of the App: time since the last call of handleLibrariesChange
    \* by a signed-in user, whether the push of that burst of calls was issued,
    \* the calls of handleLibrariesChange and of pushAll so far, how the last
    \* pushAll of the timer ended, and whether a rejection went unhandled
    sinceChange, burst, changes, pushCalls, bgLast, unhandled,
    \* the local store of a second device of the same user: its libraries and
    \* its tombstones
    peerLibraries, peerDeletedIds

mergeVars == <<localLibs, remoteLibs, localDeletedIds, remoteDeletedIds,
               merged, finalDeletedIds, remerged, refinalDeletedIds,
               swapped, swappedDeletedIds, phase>>

storeVars == <<storeLibraries, storeDeletedIds, storeProgress>>

syncVars == <<storeLibraries, storeDeletedIds, storeProgress, remoteDoc,
              pc, payload, now, ops, pre, run, last, synced>>

appVars == <<user, libraries, timers, pushTimerRef, pushing, effect,
             sinceChange, burst, changes, pushCalls, bgLast, unhandled>>

peerVars == <<peerLibraries, peerDeletedIds>>

vars == <<mergeVars, syncVars, appVars, peerVars>>

\* the synchronised content: everything but the updatedAt / _ts stamps
Content(doc) ==
    IF doc.exists
    THEN [exists |-> TRUE, libraries |-> doc.libraries,
          deletedLibraryIds |-> doc.deletedLibraryIds,
          practiceProgress |-> doc.practiceProgress, notArrays |-> doc.notArrays]
    ELSE [exists |-> FALSE]

Snapshot ==
    [libraries |-> storeLibraries, deletedIds |-> storeDeletedIds,
     progress |-> storeProgress, remote |-> Content(remoteDoc)]

\* no state recorded
NoSnapshot == [none |-> TRUE]

NoRun == [path |-> "none"]

NoLast == [op |-> "none", outcome |-> "none", code |-> "none"]

SyncIdle ==
    /\ storeLibraries = <<>>
    /\ storeDeletedIds = <<>>
    /\ storeProgress = Null
    /\ remoteDoc = NoDoc
    /\ pc = "idle"
    /\ payload = NoDoc
    /\ now = 0
    /\ ops = 0
    /\ pre = NoSnapshot
    /\ run = NoRun
    /\ last = NoLast
    /\ synced = NoSnapshot

\* no user signed in
NoUser == "none"

AppIdle ==
    /\ user = NoUser
    /\ libraries = <<>>
    /\ timers = {}
    /\ pushTimerRef = 0
    /\ pushing = <<>>
    /\ effect = "none"
    /\ sinceChange = DebounceMs
    /\ burst = "none"
    /\ changes = 0
    /\ pushCalls = 0
    /\ bgLast = NoLast
    /\ unhandled = FALSE

MergeIdle ==
    /\ localLibs = <<>>
    /\ remoteLibs = <<>>
    /\ localDeletedIds = <<>>
    /\ remoteDeletedIds = <<>>
    /\ merged = <<>>
    /\ finalDeletedIds = <<>>
    /\ remerged = <<>>
    /\ refinalDeletedIds = <<>>
    /\ swapped = <<>>
    /\ swappedDeletedIds = <<>>
    /\ phase = "off"

\* no second device
PeerIdle ==
    /\ peerLibraries = <<>>
    /\ peerDeletedIds = <<>>

(***************************************************************************)
(* The merge engine on every input within the bounds.                      *)
(***************************************************************************)
MergeInit ==
    /\ localLibs \in LibLists(PlainLibrary, Cardinality(Ids))
    /\ remoteLibs \in LibLists(PlainLibrary, Cardinality(Ids))
    /\ localDeletedIds \in IdLists(Cardinality(Ids))
    /\ remoteDeletedIds \in IdLists(Cardinality(Ids))
    \* the two tombstone lists hold at most as many entries as there are ids
    /\ Len(localDeletedIds) + Len(remoteDeletedIds) <= Cardinality(Ids)
    /\ merged = <<>>
    /\ finalDeletedIds = <<>>
    /\ remerged = <<>>
    /\ refinalDeletedIds = <<>>
    /\ swapped = <<>>
    /\ swappedDeletedIds = <<>>
    /\ phase = "input"
    /\ SyncIdle
    /\ PeerIdle
    /\ AppIdle

Merge ==
    /\ phase = "input"
    /\ LET r == smartMergeLibraries(localLibs, remoteLibs, localDeletedIds, remoteDeletedIds)
       IN /\ merged' = r.merged
          /\ finalDeletedIds' = r.finalDeletedIds
    /\ phase' = "merged"
    /\ UNCHANGED <<localLibs, remoteLibs, localDeletedIds, remoteDeletedIds,
                   remerged, refinalDeletedIds, swapped, swappedDeletedIds>>
    /\ UNCHANGED syncVars
    /\ UNCHANGED peerVars
    /\ UNCHANGED appVars

Remerge ==
    /\ phase = "merged"
    /\ LET r == smartMergeLibraries(merged, remoteLibs, finalDeletedIds, remoteDeletedIds)
       IN /\ remerged' = r.merged
          /\ refinalDeletedIds' = r.finalDeletedIds
    /\ phase' = "remerged"
    /\ UNCHANGED <<localLibs, remoteLibs, localDeletedIds, remoteDeletedIds,
                   merged, finalDeletedIds, swapped, swappedDeletedIds>>
    /\ UNCHANGED syncVars
    /\ UNCHANGED peerVars
    /\ UNCHANGED appVars

MergeNext == Merge \/ Remerge

SpecMerge == MergeInit /\ [][MergeNext]_vars

(***************************************************************************)
(* Properties of the merge engine, checked under SpecMerge.                *)
(***************************************************************************)
Merged == phase \in {"merged", "remerged"}

InputDeleted == Range(localDeletedIds) \cup Range(remoteDeletedIds)

\* the ids both input lists hold and no tombstone names
SharedLive == (IdsOf(localLibs) \cap IdsOf(remoteLibs)) \ InputDeleted

\* C1: no library whose id is in localDeletedIds or remoteDeletedIds is in the
\* merged libraries, whichever side holds it and whatever its timestamps are.
TombstoneDominance ==
    Merged => \A i \in InputDeleted : i \notin IdsOf(merged)

\* a tombstone of the remote side alone drops a library both sides hold and
\* whose local copy is the newer one
TombstoneDominanceWitness ==
    /\ phase = "merged"
    /\ \E i \in (IdsOf(localLibs) \cap IdsOf(remoteLibs)) :
          /\ i \in Range(remoteDeletedIds) \ Range(localDeletedIds)
          /\ LibTime(MapGet(localLibs, i)) > LibTime(MapGet(remoteLibs, i))
          /\ i \notin IdsOf(merged)
    /\ merged # <<>>

\* C2: finalDeletedIds is, as a set, localDeletedIds \cup remoteDeletedIds.
TombstoneUnion ==
    Merged => Range(finalDeletedIds) = Range(localDeletedIds) \cup Range(remoteDeletedIds)

TombstoneUnionWitness ==
    /\ phase = "merged"
    /\ Range(localDeletedIds) \ Range(remoteDeletedIds) # {}
    /\ Range(remoteDeletedIds) \ Range(localDeletedIds) # {}
    /\ Range(finalDeletedIds) = Ids

\* C3: for a live id on both sides whose copies have different effective
\* timestamps (the value processLib compares), the merged list holds the copy
\* with the larger one, be it the local or the remote copy.
LastWriteWins ==
    Merged =>
        \A i \in SharedLive :
            LET l == MapGet(localLibs, i)
                r == MapGet(remoteLibs, i)
            IN LibTime(l) # LibTime(r) =>
                  /\ MapHas(merged, i)
                  /\ MapGet(merged, i) = (IF LibTime(l) > LibTime(r) THEN l ELSE r)

\* one id is won by the local copy and another by the remote copy
LastWriteWinsWitness ==
    /\ phase = "merged"
    /\ \E i, j \in SharedLive :
          /\ LibTime(MapGet(localLibs, i)) > LibTime(MapGet(remoteLibs, i))
          /\ MapGet(merged, i) = MapGet(localLibs, i)
          /\ LibTime(MapGet(remoteLibs, j)) > LibTime(MapGet(localLibs, j))
          /\ MapGet(merged, j) = MapGet(remoteLibs, j)

\* C4 as stated: on equal effective timestamps the merged list keeps the
\* remote copy.
TieKeepsRemote ==
    Merged =>
        \A i \in SharedLive :
            LibTime(MapGet(localLibs, i)) = LibTime(MapGet(remoteLibs, i))
                => MapGet(merged, i) = MapGet(remoteLibs, i)

\* C4 amended: on equal effective timestamps the merged list keeps the copy
\* processed first, the local one; the remote copy replaces it only when it is
\* strictly newer.
TieKeepsLocal ==
    Merged =>
        \A i \in SharedLive :
            LibTime(MapGet(localLibs, i)) = LibTime(MapGet(remoteLibs, i))
                => /\ MapHas(merged, i)
                   /\ MapGet(merged, i) = MapGet(localLibs, i)

\* two different copies with equal effective timestamps, the local one kept
TieKeepsLocalWitness ==
    /\ phase = "merged"
    /\ \E i \in SharedLive :
          /\ LibTime(MapGet(localLibs, i)) = LibTime(MapGet(remoteLibs, i))
          /\ MapGet(localLibs, i) # MapGet(remoteLibs, i)
          /\ MapGet(merged, i) = MapGet(localLibs, i)

\* C5: with (M, T) = merge(L, R), merge((M, T), R) returns the libraries M and
\* the tombstone set T again.
MergeIdempotent ==
    phase = "remerged" =>
        /\ remerged = merged
        /\ Range(refinalDeletedIds) = Range(finalDeletedIds)

\* the first merge changed the local side: it took a remote copy, dropped a
\* tombstoned library and added a tombstone
MergeIdempotentWitness ==
    /\ phase = "remerged"
    /\ merged # localLibs
    /\ merged # <<>>
    /\ IdsOf(localLibs) \cap Range(remoteDeletedIds) # {}
    /\ Range(finalDeletedIds) # Range(localDeletedIds)
    /\ \E i \in SharedLive : MapGet(merged, i) # MapGet(localLibs, i)

(***************************************************************************)
(* The merge engine with its two sides exchanged.                          *)
(***************************************************************************)
\* the inputs of MergeInit with at most one tombstone on each side
CommuteInit ==
    /\ MergeInit
    /\ Len(localDeletedIds) <= 1
    /\ Len(remoteDeletedIds) <= 1

\* merge(R, L): the remote side is handed over as the local one
MergeSwapped ==
    /\ phase = "merged"
    /\ LET r == smartMergeLibraries(remoteLibs, localLibs, remoteDeletedIds, localDeletedIds)
       IN /\ swapped' = r.merged
          /\ swappedDeletedIds' = r.finalDeletedIds
    /\ phase' = "swapped"
    /\ UNCHANGED <<localLibs, remoteLibs, localDeletedIds, remoteDeletedIds,
                   merged, finalDeletedIds, remerged, refinalDeletedIds>>
    /\ UNCHANGED syncVars
    /\ UNCHANGED peerVars
    /\ UNCHANGED appVars

CommuteNext == Merge \/ MergeSwapped

SpecCommute == CommuteInit /\ [][CommuteNext]_vars

\* ids whose two copies differ and have the same effective timestamp
Tied ==
    {i \in SharedLive :
        /\ MapGet(localLibs, i) # MapGet(remoteLibs, i)
        /\ LibTime(MapGet(localLibs, i)) = LibTime(MapGet(remoteLibs, i))}

\* C19 as stated: merge(L, R) and merge(R, L) return the same tombstone set
\* and the same copy of every library id.
MergeCommutes ==
    phase = "swapped" =>
        /\ Range(swappedDeletedIds) = Range(finalDeletedIds)
        /\ Range(swapped) = Range(merged)

\* C19: merge(L, R) and merge(R, L) return the same tombstone set and the
\* same library ids, and the same copy of every id except those whose two
\* copies differ with equal effective timestamps: of these each call keeps
\* the copy of the side it was given first.
MergeCommutesUpToTies ==
    phase = "swapped" =>
        /\ Range(swappedDeletedIds) = Range(finalDeletedIds)
        /\ IdsOf(swapped) = IdsOf(merged)
        /\ \A i \in IdsOf(merged) \ Tied : MapGet(swapped, i) = MapGet(merged, i)
        /\ \A i \in Tied :
              /\ MapGet(merged, i) = MapGet(localLibs, i)
              /\ MapGet(swapped, i) = MapGet(remoteLibs, i)

\* both orders drop a library tombstoned on one side only, and a tied id
\* comes out of them with different copies
MergeCommutesUpToTiesWitness ==
    /\ phase = "swapped"
    /\ Tied # {}
    /\ localDeletedIds # remoteDeletedIds
    /\ (IdsOf(localLibs) \cup IdsOf(remoteLibs)) \cap Range(finalDeletedIds) # {}
    /\ \E i \in Tied : MapGet(swapped, i) # MapGet(merged, i)

(***************************************************************************)
(* The merge engine on inputs with at most one tombstone: timestamps and   *)
(* order of the result.                                                    *)
(***************************************************************************)
OrderInit ==
    /\ MergeInit
    /\ Len(localDeletedIds) + Len(remoteDeletedIds) <= 1

SpecOrder == OrderInit /\ [][Merge]_vars

\* max(updatedAt, createdAt), an absent updatedAt counting as 0
MaxTimestamp(lib) == IF lib.updatedAt > lib.createdAt THEN lib.updatedAt ELSE lib.createdAt

\* C25 as stated: the value compared for a library is max(updatedAt, createdAt): of two
\* copies of a live id whose max(updatedAt, createdAt) differ, the merged
\* list holds the one with the larger max, also when a copy's updatedAt is
\* present and smaller than its createdAt.
EffectiveTimestampIsMax ==
    Merged =>
        \A i \in SharedLive :
            LET l == MapGet(localLibs, i)
                r == MapGet(remoteLibs, i)
            IN MaxTimestamp(l) # MaxTimestamp(r) =>
                  MapGet(merged, i) = (IF MaxTimestamp(l) > MaxTimestamp(r) THEN l ELSE r)

\* updatedAt when the library has one (other than 0), createdAt otherwise
FallbackTimestamp(lib) == IF lib.updatedAt # 0 THEN lib.updatedAt ELSE lib.createdAt

\* C25: the value compared for a library is its updatedAt when that is
\* present and not 0, and its createdAt otherwise: of two copies of a live id
\* for which these values differ the merged list holds the copy with the
\* larger one, so a copy whose updatedAt is smaller than its createdAt is
\* compared by its updatedAt.
EffectiveTimestampFallback ==
    Merged =>
        \A i \in SharedLive :
            LET l == MapGet(localLibs, i)
                r == MapGet(remoteLibs, i)
            IN FallbackTimestamp(l) # FallbackTimestamp(r) =>
                  MapGet(merged, i) =
                     (IF FallbackTimestamp(l) > FallbackTimestamp(r) THEN l ELSE r)

\* the local copy was updated before it was created and loses to a remote
\* copy that is newer than that update but no newer than the creation
EffectiveTimestampFallbackWitness ==
    /\ phase = "merged"
    /\ \E i \in SharedLive :
          LET l == MapGet(localLibs, i)
              r == MapGet(remoteLibs, i)
          IN /\ l.updatedAt # 0
             /\ l.updatedAt < l.createdAt
             /\ FallbackTimestamp(r) > l.updatedAt
             /\ FallbackTimestamp(r) <= l.createdAt
             /\ MapGet(merged, i) = r
             /\ r # l

\* the ids of a list of libraries, in the order of the list
IdSeq(libs) == [k \in DOMAIN libs |-> libs[k].id]

\* the ids of a list in the order of their first appearance, those of the
\* set skip left out
RECURSIVE FirstAppearance(_, _)
FirstAppearance(ids, skip) ==
    IF ids = <<>> THEN <<>>
    ELSE IF Head(ids) \in skip THEN FirstAppearance(Tail(ids), skip)
    ELSE <<Head(ids)>> \o FirstAppearance(Tail(ids), skip \cup {Head(ids)})

\* C26: the merged list holds the surviving ids in the order of their first
\* appearance in the local list followed by the remote list: an id of the
\* local list stays where it is among the local ids also when the remote
\* copy replaces the local one, and the ids of the remote list alone follow
\* in their remote order.
MergeOrder ==
    Merged =>
        IdSeq(merged) = FirstAppearance(IdSeq(localLibs) \o IdSeq(remoteLibs), InputDeleted)

\* the remote list holds a library of its own before the newer copy of a
\* local library: the copy takes the local library's place at the front
MergeOrderWitness ==
    /\ phase = "merged"
    /\ Len(localLibs) = 1
    /\ Len(remoteLibs) = 2
    /\ remoteLibs[2].id = localLibs[1].id
    /\ merged = <<remoteLibs[2], remoteLibs[1]>>
    /\ remoteLibs[2] # localLibs[1]

(***************************************************************************)
(* The merge engine on libraries that hold items.                          *)
(***************************************************************************)
\* the items of a library in the orders they can be held in
OrderedItemLists == {<<>>, <<"w1">>, <<"w1", "w2">>, <<"w2", "w1">>}

\* library "a" with any of these item lists, the others without items
LibraryWithItems ==
    {l \in [id : Ids, createdAt : {1}, updatedAt : UpdatedAts, items : OrderedItemLists] :
        l.id # "a" => l.items = <<>>}

SelectInit ==
    /\ localLibs \in LibLists(LibraryWithItems, Cardinality(Ids))
    /\ remoteLibs \in LibLists(LibraryWithItems, Cardinality(Ids))
    /\ localDeletedIds \in IdLists(1)
    /\ remoteDeletedIds \in IdLists(1)
    /\ merged = <<>>
    /\ finalDeletedIds = <<>>
    /\ remerged = <<>>
    /\ refinalDeletedIds = <<>>
    /\ swapped = <<>>
    /\ swappedDeletedIds = <<>>
    /\ phase = "input"
    /\ SyncIdle
    /\ PeerIdle
    /\ AppIdle

SpecSelect == SelectInit /\ [][Merge]_vars

\* the ids one input list holds, the other does not, and no tombstone names
OneSided(libs, others) == (IdsOf(libs) \ IdsOf(others)) \ InputDeleted

\* C23: every merged library is a library of one of the two input lists, as
\* it is there (timestamps, items, item order); a live id held by one side
\* only comes out as that side holds it; a live id held by both sides comes
\* out as one of the two copies, whole, with no item that only the other
\* copy has.
WholeLibrarySelection ==
    phase = "merged" =>
        /\ Range(merged) \subseteq Range(localLibs) \cup Range(remoteLibs)
        /\ \A i \in OneSided(localLibs, remoteLibs) :
              MapHas(merged, i) /\ MapGet(merged, i) = MapGet(localLibs, i)
        /\ \A i \in OneSided(remoteLibs, localLibs) :
              MapHas(merged, i) /\ MapGet(merged, i) = MapGet(remoteLibs, i)
        /\ \A i \in SharedLive :
              LET l == MapGet(localLibs, i)
                  r == MapGet(remoteLibs, i)
                  winner == IF LibTime(r) > LibTime(l) THEN r ELSE l
                  loser == IF LibTime(r) > LibTime(l) THEN l ELSE r
              IN /\ MapHas(merged, i)
                 /\ MapGet(merged, i) = winner
                 /\ \A item \in Range(loser.items) \ Range(winner.items) :
                       item \notin Range(MapGet(merged, i).items)

\* the newer remote copy of "a" replaced a local copy that held an item the
\* remote copy lacks, and a library of the remote side alone was taken
WholeLibrarySelectionWitness ==
    /\ phase = "merged"
    /\ "a" \in SharedLive
    /\ LibTime(MapGet(remoteLibs, "a")) > LibTime(MapGet(localLibs, "a"))
    /\ MapGet(localLibs, "a").items = <<"w1", "w2">>
    /\ MapGet(remoteLibs, "a").items = <<"w1">>
    /\ MapGet(merged, "a").items = <<"w1">>
    /\ OneSided(remoteLibs, localLibs) # {}
    /\ Len(merged) = 2

(***************************************************************************)
(* The merge engine on lists that hold an id more than once.               *)
(***************************************************************************)
\* any list of libraries of length at most n: an id may come back in it
AnyLibLists(libs, n) == UNION {[1..k -> libs] : k \in 0..n}

\* three libraries at most in the two lists together, one tombstone at most
RepeatInit ==
    /\ localLibs \in AnyLibLists(PlainLibrary, 2)
    /\ remoteLibs \in AnyLibLists(PlainLibrary, 2)
    /\ Len(localLibs) + Len(remoteLibs) <= 3
    /\ localDeletedIds \in IdLists(1)
    /\ remoteDeletedIds \in IdLists(1)
    /\ Len(localDeletedIds) + Len(remoteDeletedIds) <= 1
    /\ merged = <<>>
    /\ finalDeletedIds = <<>>
    /\ remerged = <<>>
    /\ refinalDeletedIds = <<>>
    /\ swapped = <<>>
    /\ swappedDeletedIds = <<>>
    /\ phase = "input"
    /\ SyncIdle
    /\ PeerIdle
    /\ AppIdle

SpecRepeat == RepeatInit /\ [][Merge]_vars

\* the libraries of the two input lists
InputLibs == Range(localLibs) \cup Range(remoteLibs)

\* C35: the merged list holds at most one library per id, also when an input
\* list holds an id several times; the library kept for an id is one of the
\* input libraries of that id and no input library of that id has a larger
\* effective timestamp.
MergedIdsUnique ==
    Merged =>
        /\ UniqueIds(merged)
        /\ \A k \in DOMAIN merged :
              /\ merged[k] \in InputLibs
              /\ \A lib \in InputLibs :
                    lib.id = merged[k].id => LibTime(lib) <= LibTime(merged[k])
        /\ \A lib \in InputLibs : lib.id \notin InputDeleted => MapHas(merged, lib.id)

\* the local list holds one id twice, the later copy being the newer one, and
\* the remote list holds it once more: one library comes out, the newer
\* local copy
MergedIdsUniqueWitness ==
    /\ phase = "merged"
    /\ Len(localLibs) = 2
    /\ Len(remoteLibs) = 1
    /\ localLibs[1].id = localLibs[2].id
    /\ remoteLibs[1].id = localLibs[1].id
    /\ LibTime(localLibs[2]) > LibTime(localLibs[1])
    /\ LibTime(localLibs[2]) >= LibTime(remoteLibs[1])
    /\ merged = <<localLibs[2]>>

(***************************************************************************)
(* pullAndMerge (cloudSync.ts:55-121) and pushAll (cloudSync.ts:123-145),  *)
(* one operation at a time.                                                *)
(***************************************************************************)
\* the libraries a store or a document holds when the protocol starts: at most
\* one per side, created at time 1 and updated at any time or never
StartLibrary == {l \in PlainLibrary : l.createdAt = 1}

StartLibLists == LibLists(StartLibrary, 1)

\* the progress a side holds when the protocol starts
StartProgress(position) ==
    {Null} \cup {p \in PracticeProgress : p.position = position}

Init ==
    /\ MergeIdle
    /\ PeerIdle
    /\ AppIdle
    /\ storeLibraries \in StartLibLists
    /\ storeDeletedIds \in IdLists(1)
    /\ storeProgress \in StartProgress("p")
    /\ remoteDoc \in {NoDoc} \cup
          {CloudProfile(l, d, p, 0) :
              l \in StartLibLists, d \in IdLists(Cardinality(Ids)),
              p \in StartProgress("q")} \cup
          {Malformed(CloudProfile(<<>>, d, p, 0), {"libraries"}) :
              d \in IdLists(Cardinality(Ids)), p \in StartProgress("q")} \cup
          {Malformed(CloudProfile(l, <<>>, p, 0), {"deletedLibraryIds"}) :
              l \in StartLibLists, p \in StartProgress("q")}
    /\ pc = "idle"
    /\ payload = NoDoc
    /\ now = 1
    /\ ops = 0
    /\ pre = Snapshot
    /\ run = NoRun
    /\ last = NoLast
    /\ synced = NoSnapshot

\* pullAndMerge(uid) is called: it suspends in getDoc (line 59)
PullStart ==
    /\ pc = "idle"
    /\ ops < MaxOps
    /\ pc' = "pull:getDoc"
    /\ pre' = Snapshot
    /\ run' = NoRun
    /\ last' = NoLast
    /\ UNCHANGED <<storeVars, remoteDoc, payload, now, ops, synced>>
    /\ UNCHANGED mergeVars
    /\ UNCHANGED peerVars
    /\ UNCHANGED appVars

\* getDoc rejects: the catch block re-raises the classified error (lines 115-120)
GetDocFail ==
    /\ pc = "pull:getDoc"
    /\ \E code \in ErrorCodes :
          last' = Rejected("pull", code)
    /\ synced' = NoSnapshot
    /\ pc' = "idle"
    /\ ops' = ops + 1
    /\ UNCHANGED <<storeVars, remoteDoc, payload, now, pre, run>>
    /\ UNCHANGED mergeVars
    /\ UNCHANGED peerVars
    /\ UNCHANGED appVars

\* variant: the first upload leaves out the libraries that are tombstoned
GetDocAbsentFiltered ==
    /\ pc = "pull:getDoc"
    /\ ~remoteDoc.exists
    /\ payload' = CloudProfile(
          smartMergeLibraries(storeLibraries, <<>>, storeDeletedIds, <<>>).merged,
          storeDeletedIds, storeProgress, now)
    /\ now' = now + 1
    /\ run' = [path |-> "first"]
    /\ pc' = "pull:setDoc"
    /\ UNCHANGED <<storeVars, remoteDoc, ops, pre, last, synced>>
    /\ UNCHANGED mergeVars
    /\ UNCHANGED peerVars
    /\ UNCHANGED appVars

\* getDoc resolves with no document: the local snapshot is the payload (lines 60-72)
GetDocAbsent ==
    /\ pc = "pull:getDoc"
    /\ ~remoteDoc.exists
    /\ payload' = CloudProfile(storeLibraries, storeDeletedIds, storeProgress, now)
    /\ now' = now + 1
    /\ run' = [path |-> "first"]
    /\ pc' = "pull:setDoc"
    /\ UNCHANGED <<storeVars, remoteDoc, ops, pre, last, synced>>
    /\ UNCHANGED mergeVars
    /\ UNCHANGED peerVars
    /\ UNCHANGED appVars

\* getDoc resolves with a document: merge, persist locally, build the payload
\* (lines 60-62, 77-112). A call of the local store may throw: saveLibraries,
\* the (k+1)-th addDeletedLibraryId, or savePracticeProgress, whose error is
\* swallowed (lines 103-105).
GetDocExists ==
    /\ pc = "pull:getDoc"
    /\ remoteDoc.exists
    /\ LET rLibs == ArrayOrEmpty(remoteDoc, "libraries", remoteDoc.libraries)
           rDel == ArrayOrEmpty(remoteDoc, "deletedLibraryIds", remoteDoc.deletedLibraryIds)
           m == smartMergeLibraries(storeLibraries, rLibs, storeDeletedIds, rDel)
           chosen == chooseProgress(remoteDoc.practiceProgress, storeProgress)
           missing == MissingCount(storeDeletedIds, m.finalDeletedIds)
           result(saved) == [path |-> "merge", merged |-> m.merged,
                             finalDeletedIds |-> m.finalDeletedIds,
                             chooseProgress |-> chosen, progressSaved |-> saved]
       IN \/ \* saveLibraries throws (line 86)
             /\ UNCHANGED <<storeVars, payload, now, pre>>
             /\ run' = result(FALSE)
             /\ last' = Rejected("pull", NoCode)
             /\ synced' = NoSnapshot
             /\ ops' = ops + 1
             /\ pc' = "idle"
          \/ \* addDeletedLibraryId throws at its (k+1)-th call (lines 89-91)
             \E k \in 0..(missing - 1) :
                /\ storeLibraries' = m.merged
                /\ storeDeletedIds' =
                      AddMissingDeletedIds(storeDeletedIds, storeDeletedIds,
                                           m.finalDeletedIds, k)
                /\ UNCHANGED <<storeProgress, payload, now, pre>>
                /\ run' = result(FALSE)
                /\ last' = Rejected("pull", NoCode)
                /\ synced' = NoSnapshot
                /\ ops' = ops + 1
                /\ pc' = "idle"
          \/ \* the local writes succeed, savePracticeProgress included or not
             \E progressSaved \in BOOLEAN :
                /\ chosen = Null => progressSaved
                /\ storeLibraries' = m.merged
                /\ storeDeletedIds' =
                      AddMissingDeletedIds(storeDeletedIds, storeDeletedIds,
                                           m.finalDeletedIds, missing)
                /\ storeProgress' =
                      IF chosen # Null /\ progressSaved THEN chosen ELSE storeProgress
                /\ payload' = MergePayload(m, chosen, now)
                /\ now' = now + 1
                /\ run' = result(progressSaved)
                /\ pc' = "pull:setDoc"
                /\ UNCHANGED <<ops, pre, last, synced>>
    /\ UNCHANGED remoteDoc
    /\ UNCHANGED mergeVars
    /\ UNCHANGED peerVars
    /\ UNCHANGED appVars

\* setDoc resolves: the document is replaced by the payload (lines 72-74, 113-114)
PullSetDocOk ==
    /\ pc = "pull:setDoc"
    /\ remoteDoc' = payload
    /\ payload' = NoDoc
    /\ last' = Resolved("pull")
    /\ synced' = IF synced = NoSnapshot
                 THEN [libraries |-> storeLibraries, deletedIds |-> storeDeletedIds,
                       progress |-> storeProgress, remote |-> Content(payload)]
                 ELSE synced
    /\ ops' = ops + 1
    /\ pc' = "idle"
    /\ UNCHANGED <<storeVars, now, pre, run>>
    /\ UNCHANGED mergeVars
    /\ UNCHANGED peerVars
    /\ UNCHANGED appVars

\* setDoc rejects: the catch block re-raises the classified error (lines 115-120)
PullSetDocFail ==
    /\ pc = "pull:setDoc"
    /\ \E code \in ErrorCodes :
          last' = Rejected("pull", code)
    /\ synced' = NoSnapshot
    /\ payload' = NoDoc
    /\ ops' = ops + 1
    /\ pc' = "idle"
    /\ UNCHANGED <<storeVars, remoteDoc, now, pre, run>>
    /\ UNCHANGED mergeVars
    /\ UNCHANGED peerVars
    /\ UNCHANGED appVars

\* pushAll(uid) is called and a read of the local store throws while the payload
\* is built (lines 126-131): the catch block re-raises the classified error
PushLoadFail ==
    /\ pc = "idle"
    /\ ops < MaxOps
    /\ pre' = Snapshot
    /\ run' = [path |-> "push"]
    /\ last' = Rejected("push", NoCode)
    /\ synced' = NoSnapshot
    /\ ops' = ops + 1
    /\ UNCHANGED <<storeVars, remoteDoc, pc, payload, now>>
    /\ UNCHANGED mergeVars
    /\ UNCHANGED peerVars
    /\ UNCHANGED appVars

\* variant: the push merges the local state with the document it replaces
PushStartMerged ==
    /\ pc = "idle"
    /\ ops < MaxOps
    /\ payload' =
          IF remoteDoc.exists
          THEN MergePayload(
                  smartMergeLibraries(
                      storeLibraries,
                      ArrayOrEmpty(remoteDoc, "libraries", remoteDoc.libraries),
                      storeDeletedIds,
                      ArrayOrEmpty(remoteDoc, "deletedLibraryIds",
                                   remoteDoc.deletedLibraryIds)),
                  storeProgress, now)
          ELSE CloudProfile(storeLibraries, storeDeletedIds, storeProgress, now)
    /\ now' = now + 1
    /\ pre' = Snapshot
    /\ run' = [path |-> "push"]
    /\ last' = NoLast
    /\ synced' = NoSnapshot
    /\ pc' = "push:setDoc"
    /\ UNCHANGED <<storeVars, remoteDoc, ops>>
    /\ UNCHANGED mergeVars
    /\ UNCHANGED peerVars
    /\ UNCHANGED appVars

\* pushAll(uid) is called: the payload is read from the store and the call
\* suspends in setDoc (lines 126-133)
PushStart ==
    /\ pc = "idle"
    /\ ops < MaxOps
    /\ payload' = CloudProfile(storeLibraries, storeDeletedIds, storeProgress, now)
    /\ now' = now + 1
    /\ pre' = Snapshot
    /\ run' = [path |-> "push"]
    /\ last' = NoLast
    /\ synced' = NoSnapshot
    /\ pc' = "push:setDoc"
    /\ UNCHANGED <<storeVars, remoteDoc, ops>>
    /\ UNCHANGED mergeVars
    /\ UNCHANGED peerVars
    /\ UNCHANGED appVars

\* setDoc resolves: the document is replaced by the payload (lines 133-134)
PushSetDocOk ==
    /\ pc = "push:setDoc"
    /\ remoteDoc' = payload
    /\ payload' = NoDoc
    /\ last' = Resolved("push")
    /\ ops' = ops + 1
    /\ pc' = "idle"
    /\ UNCHANGED <<storeVars, now, pre, run, synced>>
    /\ UNCHANGED mergeVars
    /\ UNCHANGED peerVars
    /\ UNCHANGED appVars

\* variant: the rejected write has reached the document all the same
PushSetDocFailWritten ==
    /\ pc = "push:setDoc"
    /\ \E code \in ErrorCodes :
          last' = Rejected("push", code)
    /\ remoteDoc' = payload
    /\ payload' = NoDoc
    /\ ops' = ops + 1
    /\ pc' = "idle"
    /\ UNCHANGED <<storeVars, now, pre, run, synced>>
    /\ UNCHANGED mergeVars
    /\ UNCHANGED peerVars
    /\ UNCHANGED appVars

\* setDoc rejects: the catch block re-raises the classified error (lines 135-144)
PushSetDocFail ==
    /\ pc = "push:setDoc"
    /\ \E code \in ErrorCodes :
          last' = Rejected("push", code)
    /\ payload' = NoDoc
    /\ ops' = ops + 1
    /\ pc' = "idle"
    /\ UNCHANGED <<storeVars, remoteDoc, now, pre, run, synced>>
    /\ UNCHANGED mergeVars
    /\ UNCHANGED peerVars
    /\ UNCHANGED appVars

Next ==
    \/ PullStart
    \/ GetDocFail
    \/ GetDocAbsent
    \/ GetDocExists
    \/ PullSetDocOk
    \/ PullSetDocFail
    \/ PushLoadFail
    \/ PushStart
    \/ PushSetDocOk
    \/ PushSetDocFail

Spec == Init /\ [][Next]_vars
(***************************************************************************)
(* Properties of pullAndMerge, checked under Spec.                         *)
(***************************************************************************)
PullOk == pc = "idle" /\ last = Resolved("pull")

FirstSyncDone == PullOk /\ run.path = "first"

MergeSyncDone == PullOk /\ run.path = "merge"

\* the remote document's arrays as the operation in flight (or the last one) read them
PreRemoteLibs == ArrayOrEmpty(pre.remote, "libraries", pre.remote.libraries)

PreRemoteDeleted ==
    ArrayOrEmpty(pre.remote, "deletedLibraryIds", pre.remote.deletedLibraryIds)

\* C6: a successful pullAndMerge run right after a successful pullAndMerge
\* leaves the local libraries, tombstones and progress and the remote
\* document's content as the first run left them.
PullIdempotent ==
    (PullOk /\ synced # NoSnapshot) => Snapshot = synced

\* C7: with no remote document, pullAndMerge writes exactly the local
\* libraries, tombstones and progress, unfiltered, and leaves the store alone.
FirstSyncUpload ==
    FirstSyncDone =>
        /\ Content(remoteDoc) =
              Content(CloudProfile(pre.libraries, pre.deletedIds, pre.progress, 0))
        /\ storeLibraries = pre.libraries
        /\ storeDeletedIds = pre.deletedIds
        /\ storeProgress = pre.progress

\* a library whose id is tombstoned locally is uploaded all the same
FirstSyncUploadWitness ==
    /\ FirstSyncDone
    /\ IdsOf(storeLibraries) \cap Range(storeDeletedIds) # {}
    /\ storeProgress # Null
    /\ remoteDoc.libraries = storeLibraries

\* what the merge of the pre-state is
PreMerge ==
    smartMergeLibraries(pre.libraries, PreRemoteLibs, pre.deletedIds, PreRemoteDeleted)

\* C8: after a successful pullAndMerge on an existing document the local
\* libraries are the merged ones, the document holds the merged libraries,
\* the merged tombstones and the resolved progress and nothing else, the two
\* library lists are equal and the remote tombstones are the local ones.
MergePathPostState ==
    MergeSyncDone =>
        /\ storeLibraries = PreMerge.merged
        /\ Content(remoteDoc) =
              Content(CloudProfile(PreMerge.merged, PreMerge.finalDeletedIds,
                                   chooseProgress(pre.remote.practiceProgress, pre.progress),
                                   0))
        /\ remoteDoc.libraries = storeLibraries
        /\ Range(remoteDoc.deletedLibraryIds) = Range(storeDeletedIds)

\* both sides changed: the store took a remote library, the document a local tombstone
MergePathPostStateWitness ==
    /\ MergeSyncDone
    /\ storeLibraries # pre.libraries
    /\ storeLibraries # <<>>
    /\ pre.remote.deletedLibraryIds # remoteDoc.deletedLibraryIds
    /\ Range(pre.deletedIds) \ Range(PreRemoteDeleted) # {}

\* C9: the local tombstones only grow under pullAndMerge and pushAll, at every
\* step and however the operation ends, and after a successful merge they are
\* the old local tombstones together with the remote deletedLibraryIds.
TombstonesOnlyGrow ==
    /\ Range(pre.deletedIds) \subseteq Range(storeDeletedIds)
    /\ MergeSyncDone =>
          Range(storeDeletedIds) = Range(pre.deletedIds) \cup Range(PreRemoteDeleted)

\* a failed pullAndMerge that had already added a remote tombstone to the old ones
TombstonesOnlyGrowWitness ==
    /\ pc = "idle"
    /\ last.op = "pull"
    /\ last.outcome # "ok"
    /\ pre.deletedIds # <<>>
    /\ Range(pre.deletedIds) \subseteq Range(storeDeletedIds)
    /\ Range(storeDeletedIds) # Range(pre.deletedIds)

\* the progress the claim describes, from the two sides' progress
ResolvedProgress(remoteP, localP) ==
    IF remoteP # Null /\ localP # Null
    THEN IF remoteP.timestamp > localP.timestamp THEN remoteP
         ELSE IF remoteP.timestamp < localP.timestamp THEN localP
         ELSE remoteP
    ELSE IF remoteP # Null THEN remoteP
    ELSE localP

\* C10: the resolved progress is the whole remote or the whole local progress,
\* the one with the larger timestamp, the remote one on a tie, the one that
\* exists if only one does, null if none; it is what is uploaded, and what the
\* store holds once savePracticeProgress has stored a non-null value.
ProgressResolution ==
    LET resolved == ResolvedProgress(pre.remote.practiceProgress, pre.progress)
    IN /\ (pc = "pull:setDoc" /\ run.path = "merge") =>
             /\ payload.practiceProgress = resolved
             /\ (resolved # Null /\ run.progressSaved) => storeProgress = resolved
             /\ (resolved = Null \/ ~run.progressSaved) => storeProgress = pre.progress
       /\ MergeSyncDone => remoteDoc.practiceProgress = resolved

\* equal timestamps, different progress: the remote one is stored and uploaded
ProgressResolutionWitness ==
    /\ MergeSyncDone
    /\ pre.progress # Null
    /\ pre.remote.practiceProgress # Null
    /\ pre.progress.timestamp = pre.remote.practiceProgress.timestamp
    /\ pre.progress # pre.remote.practiceProgress
    /\ storeProgress = pre.remote.practiceProgress
    /\ remoteDoc.practiceProgress = pre.remote.practiceProgress

(***************************************************************************)
(* Properties of pushAll, checked under Spec.                              *)
(***************************************************************************)
PushOk == pc = "idle" /\ last = Resolved("push")

\* C11: a successful pushAll leaves in the remote document exactly the local
\* libraries, tombstones and progress it read when it was called, whatever
\* the document held before, and pushAll never changes the local libraries,
\* tombstones or progress, at any step and however it ends.
PushOverwrites ==
    /\ PushOk =>
          Content(remoteDoc) =
             Content(CloudProfile(pre.libraries, pre.deletedIds, pre.progress, 0))
    /\ run.path = "push" =>
          /\ storeLibraries = pre.libraries
          /\ storeDeletedIds = pre.deletedIds
          /\ storeProgress = pre.progress

\* the replaced document held a newer copy of a local library and a tombstone
\* the store does not have: neither survives the push
PushOverwritesWitness ==
    /\ PushOk
    /\ pre.remote.exists
    /\ \E l \in Range(pre.libraries) : \E r \in Range(PreRemoteLibs) :
          /\ r.id = l.id
          /\ LibTime(r) > LibTime(l)
          /\ r \notin Range(remoteDoc.libraries)
    /\ Range(PreRemoteDeleted) \ Range(remoteDoc.deletedLibraryIds) # {}

(***************************************************************************)
(* Error handling of pullAndMerge and pushAll, checked under Spec.         *)
(***************************************************************************)
ErrorKinds == {"permission-denied", "unavailable", "unknown"}

\* the kind an underlying error code is to be reported as
KindOf(code) ==
    CASE code = "permission-denied" -> "permission-denied"
      [] code = "unavailable" -> "unavailable"
      [] OTHER -> "unknown"

Ended == pc = "idle" /\ last.op \in {"pull", "push"}

\* an ended operation either resolved or rejected with the kind of its error
OutcomeClassified ==
    Ended =>
        \/ last = Resolved(last.op)
        \/ /\ last.outcome \in ErrorKinds
           /\ last.outcome = KindOf(last.code)

\* savePracticeProgress threw in the run (lines 103-105): the run got as far
\* as the remote write, which is in flight, has resolved, or was rejected
ProgressSaveFailed ==
    /\ run.path = "merge"
    /\ run.chooseProgress # Null
    /\ ~run.progressSaved
    /\ pc = "pull:setDoc" \/ last.outcome = "ok" \/ last.code \in ErrorCodes

\* an operation that resolved went through all of its steps
ResolvedMeansDone ==
    /\ PullOk /\ run.path = "merge" =>
          /\ storeLibraries = run.merged
          /\ Range(run.finalDeletedIds) \subseteq Range(storeDeletedIds)
          /\ Content(remoteDoc) =
                Content(CloudProfile(run.merged, run.finalDeletedIds,
                                     run.chooseProgress, 0))
    /\ PullOk /\ run.path = "first" =>
          Content(remoteDoc) =
             Content(CloudProfile(storeLibraries, storeDeletedIds, storeProgress, 0))
    /\ PushOk =>
          Content(remoteDoc) =
             Content(CloudProfile(storeLibraries, storeDeletedIds, storeProgress, 0))

\* C14 as stated: every failure inside pullAndMerge or pushAll, a failing call
\* of the local store included, ends the operation with one of the three kinds.
EveryFailureReRaised ==
    /\ OutcomeClassified
    /\ (Ended /\ ProgressSaveFailed) => last.outcome \in ErrorKinds

\* C14: a rejected getDoc or setDoc and a throwing local-store call end
\* pullAndMerge or pushAll with exactly one of permission-denied (code
\* 'permission-denied'), unavailable (code 'unavailable') and unknown (any
\* other or no code), and an operation that resolves has done all its steps;
\* the one exception is savePracticeProgress, whose failure is swallowed
\* inside pullAndMerge: the run goes on to the remote write and can resolve.
ErrorClassification ==
    /\ OutcomeClassified
    /\ ResolvedMeansDone
    /\ (pc = "pull:setDoc" /\ run.path = "merge" /\ ~run.progressSaved) =>
          /\ payload = MergePayload([merged |-> run.merged,
                                     finalDeletedIds |-> run.finalDeletedIds],
                                    run.chooseProgress, payload.updatedAt)
          /\ storeProgress = pre.progress

\* addDeletedLibraryId threw after the merged libraries were saved: the run
\* ends as unknown and the document is untouched
ErrorClassificationWitness ==
    /\ Ended
    /\ last = [op |-> "pull", outcome |-> "unknown", code |-> NoCode]
    /\ storeLibraries # pre.libraries
    /\ Content(remoteDoc) = pre.remote

(***************************************************************************)
(* Malformed remote documents, checked under Spec.                         *)
(***************************************************************************)
\* the libraries of libs whose id is not in the set deleted
Without(libs, deleted) == SelectSeq(libs, LAMBDA lib : lib.id \notin deleted)

\* C21: a pullAndMerge that fetched a document whose libraries field is not
\* an array goes on to setDoc with the local libraries minus the tombstoned
\* ones (local and remote tombstones); one whose deletedLibraryIds is not an
\* array merges the document's libraries under the local tombstones alone;
\* either run can resolve, and the document it writes holds arrays.
MalformedCoerced ==
    /\ (run.path = "merge" /\ pre.remote.notArrays = {"libraries"}) =>
          /\ run.merged =
                Without(pre.libraries,
                        Range(pre.deletedIds) \cup Range(pre.remote.deletedLibraryIds))
          /\ Range(run.finalDeletedIds) =
                Range(pre.deletedIds) \cup Range(pre.remote.deletedLibraryIds)
    /\ (run.path = "merge" /\ pre.remote.notArrays = {"deletedLibraryIds"}) =>
          /\ run.merged =
                smartMergeLibraries(pre.libraries, pre.remote.libraries,
                                    pre.deletedIds, <<>>).merged
          /\ run.finalDeletedIds = pre.deletedIds
    /\ (MergeSyncDone /\ pre.remote.notArrays # {}) =>
          /\ storeLibraries = run.merged
          /\ remoteDoc.libraries = run.merged
          /\ remoteDoc.deletedLibraryIds = run.finalDeletedIds
          /\ remoteDoc.notArrays = {}

\* the libraries field was not an array: the run resolved, the local library
\* is kept and uploaded, and the remote tombstones are taken over
MalformedCoercedWitness ==
    /\ MergeSyncDone
    /\ pre.remote.notArrays = {"libraries"}
    /\ storeLibraries # <<>>
    /\ storeLibraries = pre.libraries
    /\ remoteDoc.libraries = storeLibraries
    /\ pre.remote.deletedLibraryIds # <<>>
    /\ Range(pre.remote.deletedLibraryIds) \subseteq Range(storeDeletedIds)

\* C22: when savePracticeProgress throws in pullAndMerge the run still
\* reaches setDoc: the merged libraries and tombstones are stored, the local
\* progress is as it was, the payload holds the merged libraries, the merged
\* tombstones and the resolved progress, and a resolving setDoc leaves exactly
\* that in the document and ends the run without an error.
ProgressBestEffort ==
    (run.path = "merge" /\ ~run.progressSaved /\ (pc = "pull:setDoc" \/ PullOk)) =>
        LET m == PreMerge
            resolved == chooseProgress(pre.remote.practiceProgress, pre.progress)
            written == IF pc = "pull:setDoc" THEN payload ELSE remoteDoc
        IN /\ resolved # Null
           /\ storeProgress = pre.progress
           /\ storeLibraries = m.merged
           /\ Range(storeDeletedIds) = Range(m.finalDeletedIds)
           /\ Content(written) =
                 Content(CloudProfile(m.merged, m.finalDeletedIds, resolved, 0))
           /\ PullOk => last = Resolved("pull")

\* the remote progress won, could not be stored, and was uploaded all the
\* same with the merged libraries: the run resolved
ProgressBestEffortWitness ==
    /\ MergeSyncDone
    /\ ~run.progressSaved
    /\ pre.progress # Null
    /\ storeProgress = pre.progress
    /\ remoteDoc.practiceProgress = pre.remote.practiceProgress
    /\ remoteDoc.practiceProgress # storeProgress
    /\ storeLibraries # pre.libraries
    /\ remoteDoc.libraries = storeLibraries

(***************************************************************************)
(* Order of the steps of one pullAndMerge, checked under Spec.             *)
(***************************************************************************)
\* C20: in one pullAndMerge nothing is merged, written locally or handed to
\* setDoc while getDoc is pending; the merge is computed from the fetched
\* document; the merged libraries are stored before the tombstones, and both
\* before setDoc is called; the document changes only when setDoc resolves,
\* so a run that fails in a local write has issued no remote write.
StepOrder ==
    /\ pc = "pull:getDoc" =>
          /\ Snapshot = pre
          /\ run = NoRun
          /\ payload = NoDoc
    /\ run.path = "merge" =>
          /\ LET m == PreMerge
             IN run = [run EXCEPT !.merged = m.merged,
                                  !.finalDeletedIds = m.finalDeletedIds]
          /\ storeDeletedIds # pre.deletedIds => storeLibraries = run.merged
    /\ (pc = "pull:setDoc" /\ run.path = "merge") =>
          /\ storeLibraries = run.merged
          /\ Range(run.finalDeletedIds) \subseteq Range(storeDeletedIds)
          /\ payload.libraries = storeLibraries
          /\ Content(remoteDoc) = pre.remote
    /\ (Ended /\ last = Rejected("pull", NoCode)) =>
          /\ payload = NoDoc
          /\ Content(remoteDoc) = pre.remote

\* setDoc is pending: libraries and tombstones are already stored, the
\* document still is the fetched one
StepOrderWitness ==
    /\ pc = "pull:setDoc"
    /\ run.path = "merge"
    /\ storeLibraries # pre.libraries
    /\ storeDeletedIds # pre.deletedIds
    /\ Content(remoteDoc) = pre.remote
    /\ Content(payload) # pre.remote

(***************************************************************************)
(* The remote document across the writes of pullAndMerge and pushAll,      *)
(* checked under Spec.                                                     *)
(***************************************************************************)
\* the ids a document lists as deleted (none if there is no document or the
\* field is not an array)
DocTombstones(doc) ==
    IF doc.exists
    THEN Range(ArrayOrEmpty(doc, "deletedLibraryIds", doc.deletedLibraryIds))
    ELSE {}

\* a setDoc of pullAndMerge or pushAll resolves: the document is replaced
RemoteWrite == remoteDoc' # remoteDoc

\* C33: an id listed in the remote document's deletedLibraryIds is listed in
\* it after every later successful write of pullAndMerge and pushAll.
RemoteTombstonesGrow ==
    [][RemoteWrite => DocTombstones(remoteDoc) \subseteq DocTombstones(remoteDoc')]_vars

\* C34: after every successful remote write of pullAndMerge (first sync or
\* merge) and pushAll, no library of the document has an id the same
\* document lists in deletedLibraryIds.
RemoteDocConsistent ==
    [][RemoteWrite =>
          IdsOf(remoteDoc'.libraries) \cap DocTombstones(remoteDoc') = {}]_vars

\* pullAndMerge ended because getDoc was rejected
FetchFailed ==
    /\ Ended
    /\ last.op = "pull"
    /\ last.code \in ErrorCodes
    /\ run = NoRun

\* pushAll ended because setDoc was rejected
PushWriteFailed ==
    /\ Ended
    /\ last.op = "push"
    /\ last.code \in ErrorCodes

\* C37: when the getDoc of pullAndMerge or the setDoc of pushAll is rejected,
\* the local libraries, tombstones and progress and the remote document are
\* as they were when the operation was called, at the end of the operation
\* and while it was suspended, and the operation ends with the error kind of
\* the rejection's code.
EarlyFailureKeepsState ==
    /\ (FetchFailed \/ PushWriteFailed) =>
          /\ Snapshot = pre
          /\ last.outcome = KindOf(last.code)
          /\ last.outcome \in ErrorKinds
    /\ pc \in {"pull:getDoc", "push:setDoc"} => Snapshot = pre

\* a pushAll that would have replaced a document differing from the store in
\* libraries and tombstones was rejected as unavailable: nothing changed
EarlyFailureKeepsStateWitness ==
    /\ PushWriteFailed
    /\ last.outcome = "unavailable"
    /\ remoteDoc.exists
    /\ remoteDoc.libraries # storeLibraries
    /\ Range(remoteDoc.deletedLibraryIds) # Range(storeDeletedIds)
    /\ Snapshot = pre

(***************************************************************************)
(* The App (App.tsx): handleLibrariesChange and its push timer.            *)
(***************************************************************************)
Uids == {"u1"}

\* variant: the push is scheduled whoever is or is not signed in
ScheduledAlways(u) == TRUE

\* if (user) (line 116)
Scheduled(u) == u # NoUser

\* variant: the timer of the previous call is left running
clearTimeoutNever(ts, ref) == ts

\* if (pushTimerRef.current) window.clearTimeout(pushTimerRef.current) (line 117)
clearTimeout(ts, ref) == IF ref # 0 THEN {t \in ts : t.id # ref} ELSE ts

\* window.setTimeout(() => pushAll(user.uid)..., 1200) (lines 118-120): the
\* callback keeps the user of the render that created it
setTimeout(ts, id, u) == ts \cup {[id |-> id, uid |-> u, left |-> DebounceMs]}

\* variant: a rejected pushAll of the timer is passed on
PropagatesAlways(rejection) == TRUE

\* .catch(() => { }) (line 119): whether the rejection goes on unhandled
Propagates(rejection) == FALSE

\* handleLibrariesChange(newLibraries) (lines 112-122)
handleLibrariesChange(newLibraries) ==
    /\ changes < MaxChanges
    /\ libraries' = newLibraries
    /\ storeLibraries' = newLibraries
    /\ IF Scheduled(user)
       THEN /\ timers' = setTimeout(clearTimeout(timers, pushTimerRef), changes + 1, user)
            /\ pushTimerRef' = changes + 1
            /\ sinceChange' = 0
            /\ burst' = "open"
       ELSE UNCHANGED <<timers, pushTimerRef, sinceChange, burst>>
    /\ changes' = changes + 1
    /\ UNCHANGED <<user, pushing, effect, pushCalls, bgLast, unhandled>>
    /\ UNCHANGED <<storeDeletedIds, storeProgress, remoteDoc, pc, payload, now, ops,
                   pre, run, last, synced>>
    /\ UNCHANGED mergeVars
    /\ UNCHANGED peerVars

\* a component calls onLibrariesChange with some list of libraries
LocalChange == \E newLibraries \in StartLibLists : handleLibrariesChange(newLibraries)

\* time passes, as long as no timer is due
Tick ==
    /\ timers # {}
    /\ \A t \in timers : t.left > 0
    /\ timers' = {[t EXCEPT !.left = @ - TickMs] : t \in timers}
    /\ sinceChange' = IF sinceChange < DebounceMs THEN sinceChange + TickMs ELSE sinceChange
    /\ UNCHANGED <<user, libraries, pushTimerRef, pushing, effect, burst, changes,
                   pushCalls, bgLast, unhandled>>
    /\ UNCHANGED syncVars
    /\ UNCHANGED mergeVars
    /\ UNCHANGED peerVars

\* a timer is due: pushAll(user.uid) is called (line 119, cloudSync.ts:123-133);
\* it reads the store, where a read may throw, and suspends in setDoc
TimerFires ==
    \E t \in timers :
        /\ t.left = 0
        /\ timers' = timers \ {t}
        /\ pushCalls' = pushCalls + 1
        /\ burst' = "pushed"
        /\ \/ /\ bgLast' = Rejected("push", NoCode)
              /\ unhandled' = (unhandled \/ Propagates(bgLast'))
              /\ UNCHANGED <<pushing, now>>
           \/ /\ pushing' =
                    Append(pushing,
                           [uid |-> t.uid,
                            payload |-> CloudProfile(storeLibraries, storeDeletedIds,
                                                     storeProgress, now)])
              /\ now' = now + 1
              /\ UNCHANGED <<bgLast, unhandled>>
        /\ UNCHANGED <<user, libraries, pushTimerRef, effect, sinceChange, changes>>
        /\ UNCHANGED <<storeVars, remoteDoc, pc, payload, ops, pre, run, last, synced>>
        /\ UNCHANGED mergeVars
        /\ UNCHANGED peerVars

\* setDoc of the oldest pushAll of the timer resolves (cloudSync.ts:133-134)
BgSetDocOk ==
    /\ pushing # <<>>
    /\ remoteDoc' = Head(pushing).payload
    /\ pushing' = Tail(pushing)
    /\ bgLast' = Resolved("push")
    /\ UNCHANGED <<user, libraries, timers, pushTimerRef, effect, sinceChange, burst,
                   changes, pushCalls, unhandled>>
    /\ UNCHANGED <<storeVars, pc, payload, now, ops, pre, run, last, synced>>
    /\ UNCHANGED mergeVars
    /\ UNCHANGED peerVars

\* setDoc of the oldest pushAll of the timer rejects: pushAll re-raises the
\* classified error (cloudSync.ts:135-144) and the callback's catch takes it
BgSetDocFail ==
    /\ pushing # <<>>
    /\ \E code \in ErrorCodes : bgLast' = Rejected("push", code)
    /\ unhandled' = (unhandled \/ Propagates(bgLast'))
    /\ pushing' = Tail(pushing)
    /\ UNCHANGED <<user, libraries, timers, pushTimerRef, effect, sinceChange, burst,
                   changes, pushCalls>>
    /\ UNCHANGED syncVars
    /\ UNCHANGED mergeVars
    /\ UNCHANGED peerVars

\* handleLibrariesChange called with a user signed in or with none
HandlerInit ==
    /\ MergeIdle
    /\ PeerIdle
    /\ storeLibraries \in StartLibLists
    /\ storeDeletedIds \in IdLists(1)
    /\ storeProgress = Null
    /\ remoteDoc \in {NoDoc} \cup {CloudProfile(l, <<>>, Null, 0) : l \in StartLibLists}
    /\ pc = "idle"
    /\ payload = NoDoc
    /\ now = 1
    /\ ops = 0
    /\ pre = NoSnapshot
    /\ run = NoRun
    /\ last = NoLast
    /\ synced = NoSnapshot
    /\ user \in {NoUser} \cup Uids
    /\ libraries = storeLibraries
    /\ timers = {}
    /\ pushTimerRef = 0
    /\ pushing = <<>>
    /\ effect = "none"
    /\ sinceChange = DebounceMs
    /\ burst = "none"
    /\ changes = 0
    /\ pushCalls = 0
    /\ bgLast = NoLast
    /\ unhandled = FALSE

HandlerNext ==
    \/ LocalChange
    \/ Tick
    \/ TimerFires
    \/ BgSetDocOk
    \/ BgSetDocFail

SpecHandler == HandlerInit /\ [][HandlerNext]_vars

\* timers fire, and time passes while one is pending
SpecHandlerFair == SpecHandler /\ WF_vars(Tick) /\ WF_vars(TimerFires)

(***************************************************************************)
(* Properties of handleLibrariesChange, checked under SpecHandler.         *)
(***************************************************************************)
\* C12: every call of handleLibrariesChange leaves the given libraries in the
\* local store (and in the libraries state) in the same step, with or
\* without a user; with no user the call leaves timers, pushTimerRef and the
\* pushAll calls alone, and no timer or pushAll ever exists without a user.
ChangePersists ==
    /\ [][changes' # changes =>
             /\ storeLibraries' = libraries'
             /\ user = NoUser =>
                   /\ timers' = timers
                   /\ pushTimerRef' = pushTimerRef
                   /\ pushing' = pushing
                   /\ pushCalls' = pushCalls]_vars
    /\ [](user = NoUser => (timers = {} /\ pushing = <<>> /\ pushCalls = 0))

\* calls were made with no user: the store follows, no timer, no pushAll
ChangePersistsWitness ==
    /\ user = NoUser
    /\ changes = MaxChanges
    /\ storeLibraries = libraries
    /\ storeLibraries # <<>>
    /\ timers = {}
    /\ pushCalls = 0

\* C13: for a signed-in user at most one timer is pending at any moment; it
\* is pending exactly while the push of the open burst of calls is still to
\* come and is due one delay after the last call; pushAll is invoked only by
\* that timer, once per burst, exactly one delay after the burst's last call,
\* and the push of an open burst does come.
DebounceCoalesces ==
    /\ [](/\ Cardinality(timers) <= 1
          /\ burst = "open" <=> timers # {}
          /\ \A t \in timers : t.left = DebounceMs - sinceChange)
    /\ [][pushCalls' # pushCalls =>
             /\ pushCalls' = pushCalls + 1
             /\ burst = "open"
             /\ burst' = "pushed"
             /\ sinceChange = DebounceMs]_vars
    /\ (burst = "open") ~> (burst = "pushed")

\* two calls in one burst, one pushAll
DebounceCoalescesWitness ==
    /\ user \in Uids
    /\ changes >= 2
    /\ pushCalls = 1
    /\ burst = "pushed"
    /\ timers = {}

\* a pushAll of the timer ended with an error
BgFailed == bgLast.outcome \in ErrorKinds

\* C15: a pushAll of the timer that fails, with whatever kind, never leaves a
\* rejection unhandled and changes neither the libraries state, the local
\* store, nor the remote document; a call of handleLibrariesChange after the
\* failure stores the libraries and, with a user, leaves exactly one timer,
\* due after the full delay.
PushFailureSwallowed ==
    /\ [](~unhandled)
    /\ [][(BgFailed' /\ (Len(pushing') < Len(pushing) \/ pushCalls' # pushCalls)) =>
             UNCHANGED <<storeVars, libraries, remoteDoc, user>>]_vars
    /\ [][(BgFailed /\ changes' # changes) =>
             /\ storeLibraries' = libraries'
             /\ user \in Uids =>
                   /\ Cardinality(timers') = 1
                   /\ \A t \in timers' : t.left = DebounceMs]_vars

\* after a permission-denied pushAll a later call has stored its libraries and
\* started a timer
PushFailureSwallowedWitness ==
    /\ bgLast = Rejected("push", "permission-denied")
    /\ pushCalls = 1
    /\ changes = 2
    /\ timers # {}
    /\ storeLibraries = libraries

(***************************************************************************)
(* The App (App.tsx) with its users: sign-in with the login sync, sign-out,*)
(* the edits of the library manager, and the push timer.                   *)
(***************************************************************************)
\* the reserved id of the wrong-answer library
WrongLibraryId == "global_wrong_items"

\* getOrCreateWrongLibrary(libs) when libs holds none (utils/storage)
WrongLibrary == [id |-> WrongLibraryId, createdAt |-> 1, updatedAt |-> 0, items |-> <<>>]

\* the item the user adds to a library
NewItem == "w1"

\* the libraries the App creates: never updated (no handler sets updatedAt)
AppLibrary == {l \in VocabularyLibrary : l.createdAt = 1 /\ l.updatedAt = 0}

\* the login effect awaits pullAndMerge, or its continuation is about to run
EffectPending == effect \in {"mounted", "unmounted"} /\ pc = "idle"

\* onAuthStateChanged reports a user: setUser(u), and the login effect calls
\* pullAndMerge(user.uid), which suspends in getDoc (lines 20-23, 136-141)
SignIn ==
    /\ user = NoUser
    /\ effect = "none"
    /\ pc = "idle"
    /\ ops < MaxOps
    /\ user' \in Uids
    /\ effect' = "mounted"
    /\ pc' = "pull:getDoc"
    /\ pre' = Snapshot
    /\ run' = NoRun
    /\ last' = NoLast
    /\ UNCHANGED <<libraries, timers, pushTimerRef, pushing, sinceChange, burst,
                   changes, pushCalls, bgLast, unhandled>>
    /\ UNCHANGED <<storeVars, remoteDoc, payload, now, ops, synced>>
    /\ UNCHANGED mergeVars
    /\ UNCHANGED peerVars

\* signOutApp(): onAuthStateChanged reports null, setUser(null), and the
\* cleanup of the login effect clears mounted (lines 36-38, 153, 187)
SignOut ==
    /\ user # NoUser
    /\ ~EffectPending
    /\ user' = NoUser
    /\ effect' = IF effect = "mounted" THEN "unmounted" ELSE effect
    /\ UNCHANGED <<libraries, timers, pushTimerRef, pushing, sinceChange, burst,
                   changes, pushCalls, bgLast, unhandled>>
    /\ UNCHANGED syncVars
    /\ UNCHANGED mergeVars
    /\ UNCHANGED peerVars

\* variant: the reloaded libraries are set and saved as they are
RefreshAsLoaded ==
    /\ EffectPending
    /\ effect = "mounted"
    /\ last = Resolved("pull")
    /\ libraries' = storeLibraries
    /\ effect' = "none"
    /\ pre' = NoSnapshot
    /\ run' = NoRun
    /\ last' = NoLast
    /\ synced' = NoSnapshot
    /\ UNCHANGED <<user, timers, pushTimerRef, pushing, sinceChange, burst,
                   changes, pushCalls, bgLast, unhandled>>
    /\ UNCHANGED <<storeVars, remoteDoc, pc, payload, now, ops>>
    /\ UNCHANGED mergeVars
    /\ UNCHANGED peerVars

\* pullAndMerge of the login effect resolved and the effect is mounted: the
\* libraries are reloaded, the wrong-answer library is added if it is
\* missing, and the list is set and saved (lines 142-150)
Refresh ==
    /\ EffectPending
    /\ effect = "mounted"
    /\ last = Resolved("pull")
    /\ LET refreshed == storeLibraries
           finalLibs == IF WrongLibraryId \in IdsOf(refreshed) THEN refreshed
                        ELSE Append(refreshed, WrongLibrary)
       IN /\ libraries' = finalLibs
          /\ storeLibraries' = finalLibs
    /\ effect' = "none"
    /\ pre' = NoSnapshot
    /\ run' = NoRun
    /\ last' = NoLast
    /\ synced' = NoSnapshot
    /\ UNCHANGED <<user, timers, pushTimerRef, pushing, sinceChange, burst,
                   changes, pushCalls, bgLast, unhandled>>
    /\ UNCHANGED <<storeDeletedIds, storeProgress, remoteDoc, pc, payload, now, ops>>
    /\ UNCHANGED mergeVars
    /\ UNCHANGED peerVars

\* pullAndMerge of the login effect rejected (catch { }, line 151), or it
\* resolved with the effect cleaned up (mounted is false, line 142)
EffectEnds ==
    /\ EffectPending
    /\ effect = "unmounted" \/ last # Resolved("pull")
    /\ effect' = "none"
    /\ pre' = NoSnapshot
    /\ run' = NoRun
    /\ last' = NoLast
    /\ synced' = NoSnapshot
    /\ UNCHANGED <<user, libraries, timers, pushTimerRef, pushing, sinceChange, burst,
                   changes, pushCalls, bgLast, unhandled>>
    /\ UNCHANGED <<storeVars, remoteDoc, pc, payload, now, ops>>
    /\ UNCHANGED mergeVars
    /\ UNCHANGED peerVars

\* handleDeleteLibrary(id) (LibraryManager.tsx:190-197), confirmed by the user
handleDeleteLibrary(id) ==
    handleLibrariesChange(SelectSeq(libraries, LAMBDA lib : lib.id # id))

\* handleAddItem() with library id selected (LibraryManager.tsx:199-224)
handleAddItem(id) ==
    handleLibrariesChange(
        [k \in DOMAIN libraries |->
            IF libraries[k].id = id
            THEN [libraries[k] EXCEPT !.items = Append(@, NewItem)]
            ELSE libraries[k]])

\* handleDeleteItem(itemId) with library id selected (LibraryManager.tsx:226-240)
handleDeleteItem(id, itemId) ==
    handleLibrariesChange(
        [k \in DOMAIN libraries |->
            IF libraries[k].id = id
            THEN [libraries[k] EXCEPT !.items = SelectSeq(@, LAMBDA item : item # itemId)]
            ELSE libraries[k]])

\* the library manager is rendered for a signed-in user only (lines 200-211);
\* the card of the wrong-answer library has no delete button
DeleteLibrary ==
    /\ user # NoUser
    /\ ~EffectPending
    /\ \E id \in IdsOf(libraries) \ {WrongLibraryId} : handleDeleteLibrary(id)

AddItem ==
    /\ user # NoUser
    /\ ~EffectPending
    /\ \E k \in DOMAIN libraries :
          /\ libraries[k].id # WrongLibraryId
          /\ NewItem \notin Range(libraries[k].items)
          /\ handleAddItem(libraries[k].id)

DeleteItem ==
    /\ user # NoUser
    /\ ~EffectPending
    /\ \E k \in DOMAIN libraries :
          /\ libraries[k].id # WrongLibraryId
          /\ \E itemId \in Range(libraries[k].items) :
                handleDeleteItem(libraries[k].id, itemId)

\* the app was loaded before (the wrong-answer library exists, lines 78-92),
\* nobody is signed in yet, and the store and the document hold what earlier
\* sessions left
AppInit ==
    /\ MergeIdle
    /\ PeerIdle
    /\ \E l \in LibLists(AppLibrary \cap PlainLibrary, 1) :
          storeLibraries = Append(l, WrongLibrary)
    /\ storeDeletedIds \in IdLists(1)
    /\ Range(storeDeletedIds) \cap IdsOf(storeLibraries) = {}
    /\ storeProgress = Null
    /\ remoteDoc \in {NoDoc} \cup
          {CloudProfile(l, d, Null, 0) : l \in LibLists(AppLibrary, 1), d \in IdLists(1)}
    /\ pc = "idle"
    /\ payload = NoDoc
    /\ now = 1
    /\ ops = 0
    /\ pre = NoSnapshot
    /\ run = NoRun
    /\ last = NoLast
    /\ synced = NoSnapshot
    /\ user = NoUser
    /\ libraries = storeLibraries
    /\ timers = {}
    /\ pushTimerRef = 0
    /\ pushing = <<>>
    /\ effect = "none"
    /\ sinceChange = DebounceMs
    /\ burst = "none"
    /\ changes = 0
    /\ pushCalls = 0
    /\ bgLast = NoLast
    /\ unhandled = FALSE

AppNext ==
    \/ SignIn
    \/ SignOut
    \/ GetDocFail
    \/ GetDocAbsent
    \/ GetDocExists
    \/ PullSetDocOk
    \/ PullSetDocFail
    \/ Refresh
    \/ EffectEnds
    \/ DeleteLibrary
    \/ AddItem
    \/ DeleteItem
    \/ Tick
    \/ TimerFires
    \/ BgSetDocOk
    \/ BgSetDocFail

SpecApp == AppInit /\ [][AppNext]_vars

(***************************************************************************)
(* Properties of the App's edits, checked under SpecApp.                   *)
(***************************************************************************)
\* C17: when handleLibrariesChange is called with a list that no longer holds
\* a library the libraries state held, the id of that library is in the
\* local tombstones after the call.
DeleteCreatesTombstone ==
    [][\A id \in Ids :
          (changes' # changes /\ id \in IdsOf(libraries) /\ id \notin IdsOf(libraries')) =>
              id \in Range(storeDeletedIds')]_vars

\* the fetched document exists and pullAndMerge gets as far as setDoc
MergeStep == pc = "pull:getDoc" /\ pc' = "pull:setDoc" /\ remoteDoc.exists

\* setDoc of pullAndMerge resolves
PullWrites == pc = "pull:setDoc" /\ pc' = "idle" /\ last' = Resolved("pull")

\* l is r with items added or removed and nothing else changed
EditedCopyOf(l, r) ==
    /\ l.id = r.id
    /\ l.createdAt = r.createdAt
    /\ l.updatedAt = r.updatedAt
    /\ l.items # r.items

\* C18: when pullAndMerge merges, every stored library that differs from the
\* document's copy of the same id in its items alone, and is tombstoned on
\* neither side, stays in the store as it is and is in the payload as it is,
\* and the payload is what the resolving setDoc leaves in the document.
OfflineEditsKept ==
    /\ [][MergeStep =>
             \A l \in Range(storeLibraries) :
                \A r \in Range(ArrayOrEmpty(remoteDoc, "libraries", remoteDoc.libraries)) :
                   (/\ EditedCopyOf(l, r)
                    /\ l.id \notin Range(storeDeletedIds)
                    /\ l.id \notin Range(ArrayOrEmpty(remoteDoc, "deletedLibraryIds",
                                                      remoteDoc.deletedLibraryIds))) =>
                      /\ l \in Range(storeLibraries')
                      /\ l \in Range(payload'.libraries)]_vars
    /\ [][PullWrites => remoteDoc' = payload]_vars

\* the user added an item to a library the document holds without it; the
\* sync kept the copy with the item and uploaded it
OfflineEditsKeptWitness ==
    /\ pc = "idle"
    /\ last = Resolved("pull")
    /\ run.path = "merge"
    /\ changes > 0
    /\ \E l \in Range(storeLibraries) :
          /\ l.id \in Ids
          /\ l.items = <<NewItem>>
          /\ l \in Range(remoteDoc.libraries)
          /\ [l EXCEPT !.items = <<>>] \in Range(pre.remote.libraries)

\* the pullAndMerge of the login effect is suspended in getDoc or setDoc
PullInFlight == pc \in {"pull:getDoc", "pull:setDoc"}

\* C29: in the App at most one sync operation is in flight: no pushAll of the
\* push timer is suspended in setDoc while the pullAndMerge of the login
\* effect is, and no two pushAll calls of the timer are suspended at once.
SingleSyncInFlight ==
    /\ ~(PullInFlight /\ pushing # <<>>)
    /\ Len(pushing) <= 1

\* the continuation of the login effect runs after a pullAndMerge that merged
RefreshStep ==
    /\ effect = "mounted"
    /\ effect' = "none"
    /\ last = Resolved("pull")
    /\ run.path = "merge"

\* the ids of the libraries the merge took from the fetched document alone:
\* merged, held by the document and not by the store at sign-in (the
\* library manager adds no library here)
RemoteOnlyMerged ==
    {id \in IdsOf(run.merged) :
        /\ id \in IdsOf(ArrayOrEmpty(pre.remote, "libraries", pre.remote.libraries))
        /\ id \notin IdsOf(pre.libraries)}

\* C30: a library that is not tombstoned and that only the fetched document
\* held is in the local store when the login sync and the refresh of the
\* App have completed, whatever calls of handleLibrariesChange came while
\* pullAndMerge was suspended in getDoc or in setDoc.
RemoteOnlySurvives ==
    [][RefreshStep => RemoteOnlyMerged \subseteq IdsOf(storeLibraries')]_vars

\* the timer t is due and its callback calls pushAll(t.uid)
PushInvoked(t) == t \in timers /\ t \notin timers' /\ pushCalls' = pushCalls + 1

\* C36: pushAll is invoked only with the uid of the user who is signed in at
\* that moment: a timer that is pending when the user signs out does not
\* call pushAll for the user who left.
NoPushAfterSignOut ==
    [][\A t \in timers : PushInvoked(t) => (user # NoUser /\ t.uid = user)]_vars

(***************************************************************************)
(* The App from its first render: the initial load, then sign-in, the      *)
(* login sync and the edits of the library manager.                        *)
(***************************************************************************)
\* what the store and the document hold beside the wrong-answer library
LoadLibLists == LibLists({l \in AppLibrary \cap PlainLibrary : l.id = "a"}, 1)

\* the initial load effect of the App (lines 78-92): the stored libraries
\* are loaded; if the wrong-answer library is missing it is appended and the
\* list is saved; the list becomes the libraries state
InitialLoad ==
    /\ effect = "load"
    /\ LET loaded == storeLibraries
           updatedLibraries == Append(loaded, WrongLibrary)
       IN IF WrongLibraryId \notin IdsOf(loaded)
          THEN /\ libraries' = updatedLibraries
               /\ storeLibraries' = updatedLibraries
          ELSE /\ libraries' = loaded
               /\ UNCHANGED storeLibraries
    /\ effect' = "none"
    /\ UNCHANGED <<user, timers, pushTimerRef, pushing, sinceChange, burst,
                   changes, pushCalls, bgLast, unhandled>>
    /\ UNCHANGED <<storeDeletedIds, storeProgress, remoteDoc, pc, payload, now, ops,
                   pre, run, last, synced>>
    /\ UNCHANGED mergeVars
    /\ UNCHANGED peerVars

\* the App is rendered for the first time (libraries is [], line 69) over a
\* store that holds the wrong-answer library or not, and the user's document,
\* if there is one, holds it, does not hold it, or lists its id as deleted
LoadInit ==
    /\ MergeIdle
    /\ PeerIdle
    /\ \E l \in LoadLibLists : storeLibraries \in {l, Append(l, WrongLibrary)}
    /\ storeDeletedIds = <<>>
    /\ storeProgress = Null
    /\ remoteDoc \in {NoDoc} \cup
          {CloudProfile(l, d, Null, 0) :
              l \in LoadLibLists \cup {<<WrongLibrary>>},
              d \in {<<>>, <<WrongLibraryId>>}}
    /\ pc = "idle"
    /\ payload = NoDoc
    /\ now = 1
    /\ ops = 0
    /\ pre = NoSnapshot
    /\ run = NoRun
    /\ last = NoLast
    /\ synced = NoSnapshot
    /\ user = NoUser
    /\ libraries = <<>>
    /\ timers = {}
    /\ pushTimerRef = 0
    /\ pushing = <<>>
    /\ effect = "load"
    /\ sinceChange = DebounceMs
    /\ burst = "none"
    /\ changes = 0
    /\ pushCalls = 0
    /\ bgLast = NoLast
    /\ unhandled = FALSE

LoadNext ==
    \/ InitialLoad
    \/ AppNext

SpecLoad == LoadInit /\ [][LoadNext]_vars

\* the initial load effect runs
LoadStep == effect = "load" /\ effect' = "none"

\* the continuation of the login effect runs after pullAndMerge resolved
LoginRefreshStep == effect = "mounted" /\ effect' = "none" /\ last = Resolved("pull")

\* C38: the local store holds a library with the id 'global_wrong_items'
\* right after the initial load of the App and right after the refresh that
\* follows a successful login sync, whatever the store and the document
\* held before; and no call of handleLibrariesChange made by the library
\* manager takes that library out of the list.
WrongLibraryKept ==
    /\ [][LoadStep => WrongLibraryId \in IdsOf(storeLibraries')]_vars
    /\ [][LoginRefreshStep => WrongLibraryId \in IdsOf(storeLibraries')]_vars
    /\ [][(changes' # changes /\ WrongLibraryId \in IdsOf(libraries)) =>
             WrongLibraryId \in IdsOf(libraries')]_vars

\* the document listed the id as deleted, so the merge of the login sync took
\* the wrong-answer library out of the store and wrote a document without
\* it; the refresh has put it back
WrongLibraryKeptWitness ==
    /\ user # NoUser
    /\ effect = "none"
    /\ pc = "idle"
    /\ ops > 0
    /\ remoteDoc.exists
    /\ remoteDoc.updatedAt > 0
    /\ WrongLibraryId \notin IdsOf(remoteDoc.libraries)
    /\ WrongLibraryId \in Range(storeDeletedIds)
    /\ WrongLibraryId \in IdsOf(storeLibraries)
    /\ changes = 0

(***************************************************************************)
(* The store and the document when the App has come to rest, checked under *)
(* SpecApp.                                                                *)
(***************************************************************************)
\* no timer is pending, no pushAll of the timer is suspended, and the last
\* pushAll of the timer, if there was one, resolved
PushesSettled ==
    /\ timers = {}
    /\ pushing = <<>>
    /\ bgLast \in {NoLast, Resolved("push")}

\* the document holds the libraries and the tombstones of the store
StoreAgreesWithDocument ==
    /\ remoteDoc.exists
    /\ Range(remoteDoc.libraries) = Range(storeLibraries)
    /\ DocTombstones(remoteDoc) = Range(storeDeletedIds)

\* C31: when the login pullAndMerge has resolved and its refresh has run,
\* with no timer pending, no pushAll in flight and no pushAll that failed,
\* the remote document holds the libraries and the tombstones of the local
\* store, however the pushAll calls of the timer and the pullAndMerge of
\* the login effect were interleaved.
QuiescentAgreement ==
    [][(LoginRefreshStep /\ PushesSettled) => StoreAgreesWithDocument']_vars

(***************************************************************************)
(* pullAndMerge run after run, with another device replacing the document  *)
(* between the runs.                                                       *)
(***************************************************************************)
\* documents another device leaves behind: none, or libraries with no tombstone
OtherDocs == {NoDoc} \cup {CloudProfile(l, <<>>, Null, 0) : l \in StartLibLists}

\* another device writes the document (its setDoc, cloudSync.ts:72, 113, 133)
\* or the document is removed, after an operation of this device has ended
OtherDeviceWrites ==
    /\ pc = "idle"
    /\ last.op \in {"pull", "push"}
    /\ ops < MaxOps
    /\ remoteDoc' \in OtherDocs \ {remoteDoc}
    /\ last' = [op |-> "other", outcome |-> "ok", code |-> NoCode]
    /\ UNCHANGED <<storeVars, pc, payload, now, ops, pre, run, synced>>
    /\ UNCHANGED mergeVars
    /\ UNCHANGED peerVars
    /\ UNCHANGED appVars

ReplicaInit ==
    /\ MergeIdle
    /\ PeerIdle
    /\ AppIdle
    /\ storeLibraries \in StartLibLists
    /\ storeDeletedIds \in IdLists(1)
    /\ storeProgress = Null
    /\ remoteDoc \in {NoDoc} \cup
          {CloudProfile(l, d, Null, 0) : l \in StartLibLists, d \in IdLists(1)}
    /\ pc = "idle"
    /\ payload = NoDoc
    /\ now = 1
    /\ ops = 0
    /\ pre = Snapshot
    /\ run = NoRun
    /\ last = NoLast
    /\ synced = NoSnapshot

ReplicaNext ==
    \/ PullStart
    \/ GetDocFail
    \/ GetDocAbsent
    \/ GetDocExists
    \/ PullSetDocOk
    \/ PullSetDocFail
    \/ OtherDeviceWrites

SpecReplica == ReplicaInit /\ [][ReplicaNext]_vars

PullRetry ==
    /\ pc = "idle"
    /\ ops < MaxOps
    /\ last.op = "pull"
    /\ last.code \in ErrorCodes
    /\ run.path = "merge"
    /\ pc' = "pull:getDoc"
    /\ last' = [op |-> "retry", outcome |-> "none", code |-> NoCode]
    /\ UNCHANGED <<storeVars, remoteDoc, payload, now, ops, pre, run, synced>>
    /\ UNCHANGED mergeVars
    /\ UNCHANGED peerVars
    /\ UNCHANGED appVars

\* a store and a document of the user, each with libraries, a tombstone list
\* and progress
RetryInit ==
    /\ MergeIdle
    /\ PeerIdle
    /\ AppIdle
    /\ storeLibraries \in StartLibLists
    /\ storeDeletedIds \in IdLists(1)
    /\ storeProgress \in StartProgress("p")
    /\ remoteDoc \in {CloudProfile(l, d, p, 0) :
                          l \in StartLibLists, d \in IdLists(1), p \in StartProgress("q")}
    /\ pc = "idle"
    /\ payload = NoDoc
    /\ now = 1
    /\ ops = 0
    /\ pre = Snapshot
    /\ run = NoRun
    /\ last = NoLast
    /\ synced = NoSnapshot

RetryNext ==
    \/ PullStart
    \/ PullRetry
    \/ GetDocFail
    \/ GetDocExists
    \/ PullSetDocOk
    \/ PullSetDocFail

SpecRetry == RetryInit /\ [][RetryNext]_vars

\* the run in flight is a retry and gets from getDoc as far as setDoc
RetryMerges == last.op = "retry" /\ pc = "pull:getDoc" /\ pc' = "pull:setDoc"

\* C24: a rejected setDoc of pullAndMerge leaves the local store as the run
\* wrote it (merged libraries, tombstones, progress); a pullAndMerge called
\* next, with the document unchanged, computes the merged libraries, the
\* tombstones and the progress the failed run computed, leaves the stored
\* libraries and tombstones as they are, and uploads exactly these.
RetryRederives ==
    /\ [][(pc = "pull:setDoc" /\ pc' = "idle" /\ last'.outcome # "ok") =>
             /\ UNCHANGED storeVars
             /\ storeLibraries' = run.merged
             /\ storeDeletedIds' = run.finalDeletedIds]_vars
    /\ [][RetryMerges =>
             /\ run'.merged = run.merged
             /\ run'.finalDeletedIds = run.finalDeletedIds
             /\ run'.chooseProgress = run.chooseProgress
             /\ storeLibraries' = storeLibraries
             /\ storeDeletedIds' = storeDeletedIds
             /\ Content(payload') =
                   Content(CloudProfile(run.merged, run.finalDeletedIds,
                                        run.chooseProgress, 0))]_vars
    /\ [][(PullWrites /\ last.op = "retry") => remoteDoc' = payload]_vars

\* the retry has merged and is about to upload: the failed run had taken a
\* remote library and a remote tombstone and kept the newer local progress,
\* the store still holds them, and the payload differs from the document
RetryRederivesWitness ==
    /\ last.op = "retry"
    /\ pc = "pull:setDoc"
    /\ pre.libraries # storeLibraries
    /\ storeLibraries # <<>>
    /\ pre.deletedIds # storeDeletedIds
    /\ pre.remote.practiceProgress # Null
    /\ payload.practiceProgress = pre.progress
    /\ Content(payload) # Content(remoteDoc)
    /\ Content(remoteDoc) = pre.remote
    /\ payload.libraries = storeLibraries

(***************************************************************************)
(* The union strategy (the earlier cloudSync.ts): mergeLibraries.          *)
(***************************************************************************)
\* the texts of an item; "#" is a character a text may hold
EnglishTexts == {"a", "a#b"}

ChineseTexts == {"c", "b#c"}

\* VocabularyItem (types.ts); the id of an item plays no part in the merge
VocabularyItem ==
    [type : {"word"}, english : EnglishTexts, chinese : ChineseTexts,
     createdAt : 1..MaxTime]

\* `${it.type}#${it.english}#${it.chinese}`
uniqueKeyOfItem(it) == it.type \o "#" \o it.english \o "#" \o it.chinese

\* y.createdAt || 0
ItemTime(it) == IF it.createdAt # 0 THEN it.createdAt ELSE 0

\* Array.prototype.sort with (x, y) => ItemTime(y) - ItemTime(x): descending
\* and stable
RECURSIVE InsertDescending(_, _)
InsertDescending(sorted, it) ==
    IF sorted = <<>> THEN <<it>>
    ELSE IF ItemTime(Head(sorted)) >= ItemTime(it)
         THEN <<Head(sorted)>> \o InsertDescending(Tail(sorted), it)
         ELSE <<it>> \o sorted

RECURSIVE SortDescending(_, _)
SortDescending(sorted, items) ==
    IF items = <<>> THEN sorted
    ELSE SortDescending(InsertDescending(sorted, Head(items)), Tail(items))

\* the loop of pushLib: the items of lib whose key is not yet seen are pushed
RECURSIVE PushUnseen(_, _)
PushUnseen(existedItems, items) ==
    IF items = <<>> THEN existedItems
    ELSE IF \E k \in DOMAIN existedItems :
               uniqueKeyOfItem(existedItems[k]) = uniqueKeyOfItem(Head(items))
         THEN PushUnseen(existedItems, Tail(items))
         ELSE PushUnseen(Append(existedItems, Head(items)), Tail(items))

pushLib(byId, lib) ==
    IF ~MapHas(byId, lib.id) THEN Append(byId, lib)
    ELSE LET existed == MapGet(byId, lib.id)
         IN MapSet(byId,
                   [existed EXCEPT
                       !.items = SortDescending(<<>>, PushUnseen(existed.items, lib.items))])

RECURSIVE ForEachPushLib(_, _)
ForEachPushLib(byId, libs) ==
    IF libs = <<>> THEN byId
    ELSE ForEachPushLib(pushLib(byId, Head(libs)), Tail(libs))

\* variant: the libraries whose id is in the stored tombstones are left out
mergeLibrariesTombstoned(a, b) ==
    Without(ForEachPushLib(ForEachPushLib(<<>>, a), b), Range(storeDeletedIds))

mergeLibraries(a, b) == ForEachPushLib(ForEachPushLib(<<>>, a), b)

\* item lists of at most two items, as handleAddItem builds them: an item is
\* appended whatever the list holds
UnionItemLists ==
    {<<>>} \cup {<<x>> : x \in VocabularyItem}
           \cup {p \in {<<x, y>> : x \in VocabularyItem, y \in VocabularyItem} :
                    p[1] # p[2]}

\* one library, held by both sides with items of their own
UnionInit ==
    /\ localLibs \in
          {<<[id |-> "a", createdAt |-> 1, updatedAt |-> 0, items |-> i]>> :
              i \in UnionItemLists}
    /\ remoteLibs \in
          {<<[id |-> "a", createdAt |-> 1, updatedAt |-> u, items |-> i]>> :
              u \in {0, MaxTime}, i \in UnionItemLists}
    /\ localDeletedIds = <<>>
    /\ remoteDeletedIds = <<>>
    /\ merged = <<>>
    /\ finalDeletedIds = <<>>
    /\ remerged = <<>>
    /\ refinalDeletedIds = <<>>
    /\ swapped = <<>>
    /\ swappedDeletedIds = <<>>
    /\ phase = "input"
    /\ SyncIdle
    /\ PeerIdle
    /\ AppIdle

MergeUnion ==
    /\ phase = "input"
    /\ merged' = mergeLibraries(localLibs, remoteLibs)
    /\ phase' = "merged"
    /\ UNCHANGED <<localLibs, remoteLibs, localDeletedIds, remoteDeletedIds,
                   finalDeletedIds, remerged, refinalDeletedIds, swapped,
                   swappedDeletedIds>>
    /\ UNCHANGED syncVars
    /\ UNCHANGED peerVars
    /\ UNCHANGED appVars

SpecUnion == UnionInit /\ [][MergeUnion]_vars

\* what identifies an item for the merge
Triple(it) == <<it.type, it.english, it.chinese>>

Triples(items) == {Triple(items[k]) : k \in DOMAIN items}

\* C27: for a library id on both sides the merged items are the union of the
\* two sides' items by (type, english, chinese), hold no two items with the
\* same triple, and are in descending order of createdAt; the library's own
\* fields are those of the local copy.
UnionOfItems ==
    phase = "merged" =>
        \A i \in IdsOf(localLibs) \cap IdsOf(remoteLibs) :
            LET l == MapGet(localLibs, i)
                r == MapGet(remoteLibs, i)
                m == MapGet(merged, i)
            IN /\ Triples(m.items) = Triples(l.items) \cup Triples(r.items)
               /\ \A j, k \in DOMAIN m.items :
                     Triple(m.items[j]) = Triple(m.items[k]) => j = k
               /\ \A j, k \in DOMAIN m.items :
                     j < k => m.items[j].createdAt >= m.items[k].createdAt
               /\ m = [l EXCEPT !.items = m.items]

(***************************************************************************)
(* The union strategy: pullAndMerge and pushAll of the earlier cloudSync.ts,*)
(* one operation at a time.                                                *)
(***************************************************************************)
\* the CloudProfile of the earlier version has no deletedLibraryIds: the
\* field of the document it writes holds no array
UnionProfile(libs, progress, at) ==
    Malformed(CloudProfile(libs, <<>>, progress, at), {"deletedLibraryIds"})

\* the earlier version has no catch block: the error of the rejected call or
\* of the throwing store is what the caller gets
Raw(op, code) == [op |-> op, outcome |-> "raw", code |-> code]

\* the store may hold tombstones and the document may have been written by
\* either version
UnionSyncInit ==
    /\ MergeIdle
    /\ PeerIdle
    /\ AppIdle
    /\ storeLibraries \in StartLibLists
    /\ storeDeletedIds \in IdLists(1)
    /\ storeProgress = Null
    /\ remoteDoc \in {NoDoc} \cup
          {CloudProfile(l, d, p, 0) :
              l \in StartLibLists, d \in IdLists(1), p \in StartProgress("q")} \cup
          {UnionProfile(l, p, 0) : l \in StartLibLists, p \in StartProgress("q")}
    /\ pc = "idle"
    /\ payload = NoDoc
    /\ now = 1
    /\ ops = 0
    /\ pre = Snapshot
    /\ run = NoRun
    /\ last = NoLast
    /\ synced = NoSnapshot

\* pullAndMerge(uid) is called: it suspends in getDoc (line 41)
UnionPullStart ==
    /\ pc = "idle"
    /\ ops < MaxOps
    /\ pc' = "pull:getDoc"
    /\ pre' = Snapshot
    /\ run' = NoRun
    /\ last' = NoLast
    /\ UNCHANGED <<storeVars, remoteDoc, payload, now, ops, synced>>
    /\ UNCHANGED mergeVars
    /\ UNCHANGED peerVars
    /\ UNCHANGED appVars

\* getDoc rejects (line 41)
UnionGetDocFail ==
    /\ pc = "pull:getDoc"
    /\ \E code \in ErrorCodes : last' = Raw("pull", code)
    /\ pc' = "idle"
    /\ ops' = ops + 1
    /\ UNCHANGED <<storeVars, remoteDoc, payload, now, pre, run, synced>>
    /\ UNCHANGED mergeVars
    /\ UNCHANGED peerVars
    /\ UNCHANGED appVars

\* getDoc resolves with no document: the local libraries and progress are
\* the payload (lines 42-51)
UnionGetDocAbsent ==
    /\ pc = "pull:getDoc"
    /\ ~remoteDoc.exists
    /\ payload' = UnionProfile(storeLibraries, storeProgress, now)
    /\ now' = now + 1
    /\ run' = [path |-> "first"]
    /\ pc' = "pull:setDoc"
    /\ UNCHANGED <<storeVars, remoteDoc, ops, pre, last, synced>>
    /\ UNCHANGED mergeVars
    /\ UNCHANGED peerVars
    /\ UNCHANGED appVars

\* getDoc resolves with a document: union merge, persist locally, build the
\* payload (lines 42-43, 55-77); saveLibraries may throw, and a throw of
\* savePracticeProgress is swallowed (lines 69-71)
UnionGetDocExists ==
    /\ pc = "pull:getDoc"
    /\ remoteDoc.exists
    /\ LET rLibs == ArrayOrEmpty(remoteDoc, "libraries", remoteDoc.libraries)
           mergedLibs == mergeLibraries(storeLibraries, rLibs)
           chosen == chooseProgress(remoteDoc.practiceProgress, storeProgress)
           result(saved) == [path |-> "merge", merged |-> mergedLibs,
                             chooseProgress |-> chosen, progressSaved |-> saved]
       IN \/ /\ UNCHANGED <<storeVars, payload, now>>
             /\ run' = result(FALSE)
             /\ last' = Raw("pull", NoCode)
             /\ ops' = ops + 1
             /\ pc' = "idle"
          \/ \E progressSaved \in BOOLEAN :
                /\ chosen = Null => progressSaved
                /\ storeLibraries' = mergedLibs
                /\ storeProgress' =
                      IF chosen # Null /\ progressSaved THEN chosen ELSE storeProgress
                /\ payload' = UnionProfile(mergedLibs, chosen, now)
                /\ now' = now + 1
                /\ run' = result(progressSaved)
                /\ pc' = "pull:setDoc"
                /\ UNCHANGED <<storeDeletedIds, ops, last>>
    /\ UNCHANGED <<remoteDoc, pre, synced>>
    /\ UNCHANGED mergeVars
    /\ UNCHANGED peerVars
    /\ UNCHANGED appVars

\* setDoc of pullAndMerge resolves (lines 51-52, 78)
UnionPullSetDocOk ==
    /\ pc = "pull:setDoc"
    /\ remoteDoc' = payload
    /\ payload' = NoDoc
    /\ last' = Resolved("pull")
    /\ ops' = ops + 1
    /\ pc' = "idle"
    /\ UNCHANGED <<storeVars, now, pre, run, synced>>
    /\ UNCHANGED mergeVars
    /\ UNCHANGED peerVars
    /\ UNCHANGED appVars

\* setDoc of pullAndMerge rejects (lines 51, 78)
UnionPullSetDocFail ==
    /\ pc = "pull:setDoc"
    /\ \E code \in ErrorCodes : last' = Raw("pull", code)
    /\ payload' = NoDoc
    /\ ops' = ops + 1
    /\ pc' = "idle"
    /\ UNCHANGED <<storeVars, remoteDoc, now, pre, run, synced>>
    /\ UNCHANGED mergeVars
    /\ UNCHANGED peerVars
    /\ UNCHANGED appVars

\* pushAll(uid) is called and a read of the local store throws (lines 82-86)
UnionPushLoadFail ==
    /\ pc = "idle"
    /\ ops < MaxOps
    /\ pre' = Snapshot
    /\ run' = [path |-> "push"]
    /\ last' = Raw("push", NoCode)
    /\ ops' = ops + 1
    /\ UNCHANGED <<storeVars, remoteDoc, pc, payload, now, synced>>
    /\ UNCHANGED mergeVars
    /\ UNCHANGED peerVars
    /\ UNCHANGED appVars

\* pushAll(uid) is called: the payload is read from the store and the call
\* suspends in setDoc (lines 82-87)
UnionPushStart ==
    /\ pc = "idle"
    /\ ops < MaxOps
    /\ payload' = UnionProfile(storeLibraries, storeProgress, now)
    /\ now' = now + 1
    /\ pre' = Snapshot
    /\ run' = [path |-> "push"]
    /\ last' = NoLast
    /\ pc' = "push:setDoc"
    /\ UNCHANGED <<storeVars, remoteDoc, ops, synced>>
    /\ UNCHANGED mergeVars
    /\ UNCHANGED peerVars
    /\ UNCHANGED appVars

\* setDoc of pushAll resolves (line 87)
UnionPushSetDocOk ==
    /\ pc = "push:setDoc"
    /\ remoteDoc' = payload
    /\ payload' = NoDoc
    /\ last' = Resolved("push")
    /\ ops' = ops + 1
    /\ pc' = "idle"
    /\ UNCHANGED <<storeVars, now, pre, run, synced>>
    /\ UNCHANGED mergeVars
    /\ UNCHANGED peerVars
    /\ UNCHANGED appVars

\* setDoc of pushAll rejects (line 87)
UnionPushSetDocFail ==
    /\ pc = "push:setDoc"
    /\ \E code \in ErrorCodes : last' = Raw("push", code)
    /\ payload' = NoDoc
    /\ ops' = ops + 1
    /\ pc' = "idle"
    /\ UNCHANGED <<storeVars, remoteDoc, now, pre, run, synced>>
    /\ UNCHANGED mergeVars
    /\ UNCHANGED peerVars
    /\ UNCHANGED appVars

UnionSyncNext ==
    \/ UnionPullStart
    \/ UnionGetDocFail
    \/ UnionGetDocAbsent
    \/ UnionGetDocExists
    \/ UnionPullSetDocOk
    \/ UnionPullSetDocFail
    \/ UnionPushLoadFail
    \/ UnionPushStart
    \/ UnionPushSetDocOk
    \/ UnionPushSetDocFail

SpecUnionSync == UnionSyncInit /\ [][UnionSyncNext]_vars

\* the ids of the fetched document's libraries that the store did not hold
DeletedHere == IdsOf(PreRemoteLibs) \ IdsOf(pre.libraries)

\* C28: after a successful pullAndMerge of the union strategy on an existing
\* document, every library of the document that the local store did not hold
\* is in the local store and in the document written, whatever tombstones
\* the store or the fetched document held; pullAndMerge and pushAll of this
\* version leave the stored tombstones alone and write documents without a
\* deletedLibraryIds array.
UnionResurrects ==
    /\ MergeSyncDone =>
          /\ DeletedHere \subseteq IdsOf(storeLibraries)
          /\ DeletedHere \subseteq IdsOf(remoteDoc.libraries)
          /\ remoteDoc.libraries = storeLibraries
    /\ storeDeletedIds = pre.deletedIds
    /\ payload # NoDoc => "deletedLibraryIds" \in payload.notArrays
    /\ (pc = "idle" /\ last \in {Resolved("pull"), Resolved("push")}) =>
          "deletedLibraryIds" \in remoteDoc.notArrays

\* a library tombstoned in the store and in the fetched document, and held
\* by the document alone, is back in the store and in the document, which
\* has lost its tombstones
UnionResurrectsWitness ==
    /\ MergeSyncDone
    /\ \E id \in DeletedHere :
          /\ id \in Range(pre.deletedIds)
          /\ id \in Range(pre.remote.deletedLibraryIds)
          /\ id \in IdsOf(storeLibraries)
          /\ id \in IdsOf(remoteDoc.libraries)
    /\ pre.remote.notArrays = {}
    /\ remoteDoc.notArrays = {"deletedLibraryIds"}

(***************************************************************************)
(* Two devices of one user that run pullAndMerge in turn on the same       *)
(* remote document, with no edits in between.                              *)
(***************************************************************************)
\* the runs of pullAndMerge are counted, and Date.now() grows, up to MaxRuns;
\* the devices go on running after that
MaxRuns == 4

\* the libraries the devices hold: made by the App, which sets no updatedAt
DeviceLibrary == {l \in VocabularyLibrary : l.updatedAt = 0}

\* a counter or clock that stops at MaxRuns
Capped(n) == IF n < MaxRuns THEN n + 1 ELSE n

\* the run a device has completed: which device, and on which path
DeviceRun(device, doc) ==
    [path |-> IF doc.exists THEN "merge" ELSE "first", device |-> device]

\* one run of pullAndMerge (cloudSync.ts:55-114) in which every call
\* succeeds, on a store and the document as the run finds them: what it
\* leaves in the store and in the document
pullAndMerge(libs, del, progress, doc, at) ==
    IF ~doc.exists
    THEN [libraries |-> libs, deletedIds |-> del, progress |-> progress,
          doc |-> CloudProfile(libs, del, progress, at)]
    ELSE LET rLibs == ArrayOrEmpty(doc, "libraries", doc.libraries)
             rDel == ArrayOrEmpty(doc, "deletedLibraryIds", doc.deletedLibraryIds)
             m == smartMergeLibraries(libs, rLibs, del, rDel)
             chosen == chooseProgress(doc.practiceProgress, progress)
         IN [libraries |-> m.merged,
             deletedIds |-> AddMissingDeletedIds(del, del, m.finalDeletedIds,
                                                 MissingCount(del, m.finalDeletedIds)),
             progress |-> IF chosen # Null THEN chosen ELSE progress,
             doc |-> MergePayload(m, chosen, at)]

\* the last run was one of the given device
LastRunBy(device) ==
    run \in {[path |-> path, device |-> device] : path \in {"first", "merge"}}

\* the first device runs pullAndMerge: the first run of all, and again after
\* every run of the second device
DeviceARuns ==
    /\ run = NoRun \/ LastRunBy("B")
    /\ LET r == pullAndMerge(storeLibraries, storeDeletedIds, storeProgress, remoteDoc, now)
       IN /\ storeLibraries' = r.libraries
          /\ storeDeletedIds' = r.deletedIds
          /\ storeProgress' = r.progress
          /\ remoteDoc' = r.doc
    /\ run' = DeviceRun("A", remoteDoc)
    /\ now' = Capped(now)
    /\ ops' = Capped(ops)
    /\ UNCHANGED <<pc, payload, pre, last, synced>>
    /\ UNCHANGED peerVars
    /\ UNCHANGED mergeVars
    /\ UNCHANGED appVars

\* the second device runs pullAndMerge after every run of the first; it
\* holds no practice progress
DeviceBRuns ==
    /\ LastRunBy("A")
    /\ LET r == pullAndMerge(peerLibraries, peerDeletedIds, Null, remoteDoc, now)
       IN /\ peerLibraries' = r.libraries
          /\ peerDeletedIds' = r.deletedIds
          /\ remoteDoc' = r.doc
    /\ run' = DeviceRun("B", remoteDoc)
    /\ now' = Capped(now)
    /\ ops' = Capped(ops)
    /\ UNCHANGED <<storeVars, pc, payload, pre, last, synced>>
    /\ UNCHANGED mergeVars
    /\ UNCHANGED appVars

\* each device holds at most one library, the first device at most one
\* tombstone, and the document, if there is one, at most one library;
\* nobody has practised, so there is no progress
DevicesInit ==
    /\ MergeIdle
    /\ AppIdle
    /\ storeLibraries \in LibLists(DeviceLibrary, 1)
    /\ storeDeletedIds \in IdLists(1)
    /\ storeProgress = Null
    /\ peerLibraries \in LibLists(DeviceLibrary, 1)
    /\ peerDeletedIds = <<>>
    /\ remoteDoc \in {NoDoc} \cup
          {CloudProfile(l, <<>>, Null, 0) : l \in LibLists(DeviceLibrary, 1)}
    /\ pc = "idle"
    /\ payload = NoDoc
    /\ now = 1
    /\ ops = 0
    /\ pre = NoSnapshot
    /\ run = NoRun
    /\ last = NoLast
    /\ synced = NoSnapshot

DevicesNext ==
    \/ DeviceARuns
    \/ DeviceBRuns

SpecDevices == DevicesInit /\ [][DevicesNext]_vars

\* the devices keep running pullAndMerge in turn
SpecDevicesFair == SpecDevices /\ WF_vars(DevicesNext)

\* the two stores and the document hold the same libraries, with the same
\* content
DevicesAgree ==
    /\ remoteDoc.exists
    /\ Range(storeLibraries) = Range(remoteDoc.libraries)
    /\ Range(peerLibraries) = Range(remoteDoc.libraries)

\* C32: when two devices run pullAndMerge in turn on one document, with no
\* edits, then after finitely many runs the two stores and the document
\* hold the same libraries with the same content, and stay so under every
\* further run, also when the devices start with different copies of a
\* library whose effective timestamps are equal.
DevicesConverge == <>[]DevicesAgree

====
